---- MODULE Spec2Model ----
(***************************************************************************)
(* Model of the loan store of Sistem-Pinjaman-Koperasi-Bersama:            *)
(* PinjamanFileRepository (repositories/pinjaman_repository.py) over the   *)
(* domain model (models/pinjaman.py).                                      *)
(*                                                                         *)
(* Text is a sequence of one-character strings.  The storage file is the   *)
(* sequence of characters it holds; "," separates fields and "\r\n" (the   *)
(* csv module's line terminator, one element here) ends a line.  A Decimal *)
(* is the integer number of tenths it denotes (Scale).  Field values are   *)
(* drawn from characters the csv writer never quotes.                      *)
(*                                                                         *)
(* A process is one Python process with one repository instance: its own   *)
(* read cache, its own buffered file object.  Every write(2) on the file   *)
(* (opened with O_APPEND) is taken to be atomic.                           *)
(***************************************************************************)
EXTENDS Integers, Sequences, FiniteSets, TLC

\* ------------------------------------------------------------------ bounds
MaxOps == 3          \* calls one process makes
MaxAppends == 2      \* simpan calls of one process when two run side by side

Procs == {1, 2}
NoProc == 0

\* ------------------------------------------------------------------ text
Scale == 10

NL == "\r\n"
COMMA == ","
SPACE == " "
MINUS == "-"
\* a byte that is not valid UTF-8
BADBYTE == "0xff"

DigitChars == <<"0", "1", "2", "3", "4", "5", "6", "7", "8", "9">>

IsDigitChar(c) == \E i \in 1..10 : DigitChars[i] = c

DigitVal(c) == (CHOOSE i \in 1..10 : DigitChars[i] = c) - 1

\* str(n) of a non-negative int
RECURSIVE StrInt(_)
StrInt(n) == IF n < 10 THEN <<DigitChars[n + 1]>>
             ELSE StrInt(n \div 10) \o <<DigitChars[(n % 10) + 1]>>

RECURSIVE DigitsVal(_)
DigitsVal(t) == IF t = <<>> THEN 0
                ELSE 10 * DigitsVal(SubSeq(t, 1, Len(t) - 1)) + DigitVal(t[Len(t)])

AllDigits(t) == Len(t) > 0 /\ \A i \in 1..Len(t) : IsDigitChar(t[i])

\* str.strip()
RECURSIVE Strip(_)
Strip(t) == IF t = <<>> THEN t
            ELSE IF t[1] = SPACE THEN Strip(Tail(t))
            ELSE IF t[Len(t)] = SPACE THEN Strip(SubSeq(t, 1, Len(t) - 1))
            ELSE t

UpperChar(c) == IF c = "a" THEN "A" ELSE IF c = "b" THEN "B" ELSE c

\* str.upper()
Upper(t) == [i \in 1..Len(t) |-> UpperChar(t[i])]

\* the pieces of s between occurrences of sep
RECURSIVE SplitFrom(_, _, _, _, _)
SplitFrom(s, sep, i, cur, acc) ==
    IF i > Len(s) THEN Append(acc, cur)
    ELSE IF s[i] = sep THEN SplitFrom(s, sep, i + 1, <<>>, Append(acc, cur))
    ELSE SplitFrom(s, sep, i + 1, Append(cur, s[i]), acc)

Split(s, sep) == SplitFrom(s, sep, 1, <<>>, <<>>)

RECURSIVE Join(_, _)
Join(fields, sep) == IF fields = <<>> THEN <<>>
                     ELSE IF Len(fields) = 1 THEN fields[1]
                     ELSE fields[1] \o <<sep>> \o Join(Tail(fields), sep)

RECURSIVE Flatten(_)
Flatten(ss) == IF ss = <<>> THEN <<>> ELSE ss[1] \o Flatten(Tail(ss))

\* ------------------------------------------------------------------ domain model
JenisPinjaman == {"KONSUMTIF", "MODAL"}

kode(jenis) == IF jenis = "KONSUMTIF" THEN <<"A">> ELSE <<"B">>

tingkat_bunga(jenis) == IF jenis = "KONSUMTIF" THEN 15 ELSE 10

\* JenisPinjaman.dari_kode: the members whose kode equals kode.upper(); none = ValueError
dari_kode(k) == {j \in JenisPinjaman : kode(j) = Upper(k)}

\* Anggota.__post_init__ accepts
AnggotaValid(nomor, nama) == Len(Strip(nomor)) # 0 /\ Len(Strip(nama)) # 0

\* Pinjaman.__post_init__ accepts
PinjamanValid(jumlah, lama_bulan) == jumlah > 0 /\ lama_bulan > 0

\* a constructed Pinjaman (Anggota normalises nomor and nama by strip); _angsuran
\* is the memo field, <<>> for None; dataclass equality compares all six fields
Pinjaman(nomor, nama, jenis, jumlah, lama_bulan) ==
    [nomor |-> Strip(nomor), nama |-> Strip(nama), jenis |-> jenis,
     jumlah |-> jumlah, lama_bulan |-> lama_bulan, _angsuran |-> <<>>]

\* ------------------------------------------------------------------ inputs
Nomors == {<<"0", "0", "0", "1">>, <<"0", "0", "0", "2">>}
Namas == {<<"B">>}
Jumlahs == {5, 25, 120}        \* 0.5, 2.5 and 12 in tenths
Lamas == {12}

AllLoans == {Pinjaman(n, m, j, a, l) : n \in Nomors, m \in Namas, j \in JenisPinjaman,
                                      a \in {x \in Jumlahs : x > 0},
                                      l \in {y \in Lamas : y > 0}}

\* the pinjaman objects saved: every jenis and jumlah for the first member, one
\* pinjaman for the second
Loans == {l \in AllLoans : \/ l.nomor = <<"0", "0", "0", "1">>
                           \/ (l.jumlah = 120 /\ l.jenis = "KONSUMTIF")}

\* ------------------------------------------------------------------ csv
CSV_HEADERS == <<<<"nomor_anggota">>, <<"nama_anggota">>, <<"kode_pinjaman">>,
                 <<"jumlah_pinjaman">>, <<"lama_bulan">>>>

\* int(Decimal): truncation
IntOfDecimal(d) == d \div Scale

\* writer.writeheader()
HeaderBytes == Join(CSV_HEADERS, COMMA) \o <<NL>>

\* the dict given to writer.writerow, in fieldnames order
RowFields(p) == <<p.nomor, p.nama, kode(p.jenis), StrInt(IntOfDecimal(p.jumlah)),
                  StrInt(p.lama_bulan)>>

RowBytes(p) == Join(RowFields(p), COMMA) \o <<NL>>

\* csv.reader: the lines of the file, each a list of fields ([] for a blank line)
Lines(data) ==
    LET pieces == Split(data, NL)
        ls == IF pieces[Len(pieces)] = <<>> THEN SubSeq(pieces, 1, Len(pieces) - 1)
              ELSE pieces
    IN  [i \in 1..Len(ls) |-> IF ls[i] = <<>> THEN <<>> ELSE Split(ls[i], COMMA)]

\* Decimal(text) of the unsigned texts "ddd" and "ddd.d"; {} = InvalidOperation
UnsignedDecimalOf(t) ==
    LET parts == Split(t, ".")
    IN  IF Len(parts) = 1 /\ AllDigits(parts[1]) THEN {Scale * DigitsVal(parts[1])}
        ELSE IF Len(parts) = 2 /\ AllDigits(parts[1]) /\ AllDigits(parts[2])
                /\ Len(parts[2]) = 1
             THEN {Scale * DigitsVal(parts[1]) + DigitsVal(parts[2])}
        ELSE {}

\* Decimal(text), with an optional minus sign
DecimalOf(t) ==
    IF t # <<>> /\ t[1] = MINUS THEN {0 - x : x \in UnsignedDecimalOf(Tail(t))}
    ELSE UnsignedDecimalOf(t)

\* int(text), with an optional minus sign; {} = ValueError
IntOf(t) ==
    IF t # <<>> /\ t[1] = MINUS
    THEN IF AllDigits(Tail(t)) THEN {0 - DigitsVal(Tail(t))} ELSE {}
    ELSE IF AllDigits(t) THEN {DigitsVal(t)} ELSE {}

\* position of key in the DictReader's row dict (the last of equal fieldnames wins)
KeyIndex(fieldnames, key) ==
    LET hits == {i \in 1..Len(fieldnames) : fieldnames[i] = key}
    IN  IF hits = {} THEN 0 ELSE CHOOSE i \in hits : \A j \in hits : j <= i

\* _from_csv_row: <<the Pinjaman>>, or <<>> when it raises ValueError
from_csv_row(fieldnames, row) ==
    LET ix == [k \in 1..5 |-> KeyIndex(fieldnames, CSV_HEADERS[k])]
    IN  IF \E k \in 1..5 : ix[k] = 0 \/ ix[k] > Len(row) THEN <<>>
        ELSE LET no_anggota == Strip(row[ix[1]])
                 nama == Strip(row[ix[2]])
                 kd == Strip(row[ix[3]])
                 jumlah == DecimalOf(Strip(row[ix[4]]))
                 lama == IntOf(Strip(row[ix[5]]))
             IN  IF jumlah = {} \/ lama = {} THEN <<>>
                 ELSE IF ~AnggotaValid(no_anggota, nama) THEN <<>>
                 ELSE IF dari_kode(kd) = {} THEN <<>>
                 ELSE LET j == CHOOSE x \in jumlah : TRUE
                          l == CHOOSE x \in lama : TRUE
                          jenis == CHOOSE x \in dari_kode(kd) : TRUE
                      IN  IF PinjamanValid(j, l)
                          THEN <<Pinjaman(no_anggota, nama, jenis, j, l)>>
                          ELSE <<>>

\* the DictReader loop of ambil_semua: first line = fieldnames, blank rows skipped
ParseFile(data) ==
    LET ls == Lines(data)
    IN  IF Len(ls) = 0 THEN <<>>
        ELSE Flatten([i \in 1..(Len(ls) - 1) |->
                        IF ls[i + 1] = <<>> THEN <<>> ELSE from_csv_row(ls[1], ls[i + 1])])

\* ------------------------------------------------------------------ state
VARIABLES
    fileExists,   \* the storage file exists
    fileData,     \* its contents
    lock,         \* holder of the flock on it, or NoProc
    pc,           \* per process: position inside simpan, or "idle"
    arg,          \* per process: the pinjaman being saved
    file_exists,  \* per process: simpan's local file_exists
    buf,          \* per process: bytes written to f, not yet in the file
    exc,          \* per process: an exception is propagating out of simpan
    cache,        \* per process: self._cache
    ops,          \* per process: calls made
    last,         \* per process: the last finished call and its outcome
    pre,          \* per process: file, cache and ambil_semua() value at the last call
    ret,          \* per process: the list the last ambil_semua returned
    done,         \* the pinjaman of every simpan that returned True
    inp,          \* the arguments of the call under study (domain and service calls)
    out           \* its outcome

vars == <<fileExists, fileData, lock, pc, arg, file_exists, buf, exc, cache, ops,
          last, pre, ret, done, inp, out>>

NoCache == [valid |-> FALSE, list |-> <<>>]

\* no call under study; its outcome before it is made
NoInput == <<>>

Pending == [status |-> "pending", value |-> <<>>, reason |-> "", reads |-> <<>>]

\* ambil_semua() raises IOError: the file is read and does not decode as UTF-8
AmbilSemuaRaises(p) ==
    /\ ~cache[p].valid
    /\ fileExists
    /\ \E i \in 1..Len(fileData) : fileData[i] = BADBYTE

\* what ambil_semua() returns in the current state
AmbilSemuaResult(p) ==
    IF cache[p].valid THEN cache[p].list
    ELSE IF ~fileExists THEN <<>>
    ELSE ParseFile(fileData)

\* self._cache after ambil_semua()
AmbilSemuaCache(p) ==
    IF cache[p].valid THEN cache[p]
    ELSE IF ~fileExists THEN cache[p]
    ELSE [valid |-> TRUE, list |-> ParseFile(fileData)]

Snapshot(p) == [exists |-> fileExists, data |-> fileData, cache |-> cache[p],
                list |-> AmbilSemuaResult(p)]

AnyLoan == CHOOSE l \in Loans : TRUE

Init ==
    /\ fileExists = FALSE
    /\ fileData = <<>>
    /\ lock = NoProc
    /\ pc = [p \in Procs |-> "idle"]
    /\ arg = [p \in Procs |-> AnyLoan]
    /\ file_exists = [p \in Procs |-> FALSE]
    /\ buf = [p \in Procs |-> <<>>]
    /\ exc = [p \in Procs |-> FALSE]
    /\ cache = [p \in Procs |-> NoCache]
    /\ ops = [p \in Procs |-> 0]
    /\ last = [p \in Procs |-> [op |-> "none", ok |-> TRUE]]
    /\ pre = [p \in Procs |-> [exists |-> FALSE, data |-> <<>>, cache |-> NoCache,
                               list |-> <<>>]]
    /\ ret = [p \in Procs |-> <<>>]
    /\ done = <<>>
    /\ inp = NoInput
    /\ out = Pending

\* ------------------------------------------------------------------ simpan
\* self._cache after the row was written
CacheAfterSimpanStale(p) == cache[p]

CacheAfterSimpan(p) == NoCache

\* self._cache after hapus_semua truncated the file
CacheAfterHapusStale(p) == cache[p]

CacheAfterHapus(p) == NoCache

\* simpan returns True / raises IOError
Return(p, op, ok) ==
    /\ pc' = [pc EXCEPT ![p] = "idle"]
    /\ last' = [last EXCEPT ![p] = [op |-> op, ok |-> ok]]

SimpanCall(p, pinjaman) ==
    /\ pc[p] = "idle"
    /\ ops[p] < MaxOps
    /\ ops' = [ops EXCEPT ![p] = @ + 1]
    /\ pc' = [pc EXCEPT ![p] = "check"]
    /\ arg' = [arg EXCEPT ![p] = pinjaman]
    /\ exc' = [exc EXCEPT ![p] = FALSE]
    /\ pre' = [pre EXCEPT ![p] = Snapshot(p)]
    /\ UNCHANGED <<inp, out, fileExists, fileData, lock, file_exists, buf, cache, last, ret, done>>

\* open(self.filepath, 'r') succeeds or raises FileNotFoundError
SimpanCheckExists(p) ==
    /\ pc[p] = "check"
    /\ file_exists' = [file_exists EXCEPT ![p] = fileExists]
    /\ pc' = [pc EXCEPT ![p] = "open"]
    /\ UNCHANGED <<inp, out, fileExists, fileData, lock, arg, buf, exc, cache, ops, last, pre,
                   ret, done>>

\* open(self.filepath, 'a'): creates the file when it is missing
SimpanOpen(p) ==
    /\ pc[p] = "open"
    /\ fileExists' = TRUE
    /\ pc' = [pc EXCEPT ![p] = "lock"]
    /\ UNCHANGED <<inp, out, fileData, lock, arg, file_exists, buf, exc, cache, ops, last, pre,
                   ret, done>>

\* open(self.filepath, 'a') raises: simpan raises IOError
SimpanOpenFail(p) ==
    /\ pc[p] = "open"
    /\ Return(p, "simpan", FALSE)
    /\ UNCHANGED <<inp, out, fileExists, fileData, lock, arg, file_exists, buf, exc, cache, ops,
                   pre, ret, done>>

\* fcntl.flock(f.fileno(), LOCK_EX) blocks until no other open file holds the lock
SimpanLock(p) ==
    /\ pc[p] = "lock"
    /\ lock = NoProc
    /\ lock' = p
    /\ pc' = [pc EXCEPT ![p] = "header"]
    /\ UNCHANGED <<inp, out, fileExists, fileData, arg, file_exists, buf, exc, cache, ops, last,
                   pre, ret, done>>

\* if not file_exists: writer.writeheader()   (into f's buffer)
SimpanWriteHeader(p) ==
    /\ pc[p] = "header"
    /\ buf' = [buf EXCEPT ![p] = IF file_exists[p] THEN @ ELSE @ \o HeaderBytes]
    /\ pc' = [pc EXCEPT ![p] = "row"]
    /\ UNCHANGED <<inp, out, fileExists, fileData, lock, arg, file_exists, exc, cache, ops, last,
                   pre, ret, done>>

\* writer.writeheader() raises: on to the finally clause
SimpanWriteHeaderFail(p) ==
    /\ pc[p] = "header"
    /\ ~file_exists[p]
    /\ exc' = [exc EXCEPT ![p] = TRUE]
    /\ pc' = [pc EXCEPT ![p] = "unlock"]
    /\ UNCHANGED <<inp, out, fileExists, fileData, lock, arg, file_exists, buf, cache, ops, last,
                   pre, ret, done>>

\* writer.writerow passing the row to the file in two write(2) calls, the first at
\* once and the second when f is closed
SimpanWriteRowSplit(p) ==
    /\ pc[p] = "row"
    /\ fileData' = fileData \o buf[p] \o SubSeq(RowBytes(arg[p]), 1, 1)
    /\ buf' = [buf EXCEPT ![p] = Tail(RowBytes(arg[p]))]
    /\ cache' = [cache EXCEPT ![p] = CacheAfterSimpan(p)]
    /\ pc' = [pc EXCEPT ![p] = "unlock"]
    /\ UNCHANGED <<inp, out, fileExists, lock, arg, file_exists, exc, ops, last, pre, ret, done>>

\* writer.writerow({...}); self._cache = None.  f passes its pending bytes to the
\* file in one write(2) as soon as they fill its buffer (flushNow: a long record),
\* otherwise it keeps them.
SimpanWriteRow(p) ==
    /\ pc[p] = "row"
    /\ \E flushNow \in BOOLEAN :
          IF flushNow
          THEN /\ fileData' = fileData \o buf[p] \o RowBytes(arg[p])
               /\ buf' = [buf EXCEPT ![p] = <<>>]
          ELSE /\ buf' = [buf EXCEPT ![p] = @ \o RowBytes(arg[p])]
               /\ fileData' = fileData
    /\ cache' = [cache EXCEPT ![p] = CacheAfterSimpan(p)]
    /\ pc' = [pc EXCEPT ![p] = "unlock"]
    /\ UNCHANGED <<inp, out, fileExists, lock, arg, file_exists, exc, ops, last, pre, ret, done>>

\* building the row or writer.writerow raises: on to the finally clause
SimpanWriteRowFail(p) ==
    /\ pc[p] = "row"
    /\ exc' = [exc EXCEPT ![p] = TRUE]
    /\ pc' = [pc EXCEPT ![p] = "unlock"]
    /\ UNCHANGED <<inp, out, fileExists, fileData, lock, arg, file_exists, buf, cache, ops, last,
                   pre, ret, done>>

\* finally: fcntl.flock(f.fileno(), LOCK_UN), skipped when an exception propagates
SimpanUnlockNoFinally(p) ==
    /\ pc[p] = "unlock"
    /\ lock' = IF exc[p] THEN lock ELSE NoProc
    /\ pc' = [pc EXCEPT ![p] = "close"]
    /\ UNCHANGED <<inp, out, fileExists, fileData, arg, file_exists, buf, exc, cache, ops, last,
                   pre, ret, done>>

\* finally: fcntl.flock(f.fileno(), LOCK_UN)
SimpanUnlock(p) ==
    /\ pc[p] = "unlock"
    /\ lock' = NoProc
    /\ pc' = [pc EXCEPT ![p] = "close"]
    /\ UNCHANGED <<inp, out, fileExists, fileData, arg, file_exists, buf, exc, cache, ops, last,
                   pre, ret, done>>

\* leaving the with block closes f: its pending bytes go to the file in one
\* write(2); then return True, or IOError for the propagating exception
SimpanClose(p) ==
    /\ pc[p] = "close"
    /\ fileData' = fileData \o buf[p]
    /\ buf' = [buf EXCEPT ![p] = <<>>]
    /\ Return(p, "simpan", ~exc[p])
    /\ done' = IF exc[p] THEN done ELSE Append(done, arg[p])
    /\ UNCHANGED <<inp, out, fileExists, lock, arg, file_exists, exc, cache, ops, pre, ret>>

\* the write(2) of close fails: the pending bytes are lost, simpan raises IOError
SimpanCloseFail(p) ==
    /\ pc[p] = "close"
    /\ buf[p] # <<>>
    /\ buf' = [buf EXCEPT ![p] = <<>>]
    /\ Return(p, "simpan", FALSE)
    /\ UNCHANGED <<inp, out, fileExists, fileData, lock, arg, file_exists, exc, cache, ops, pre,
                   ret, done>>

\* the steps of a simpan under way
SimpanStep(p) ==
    \/ SimpanCheckExists(p)
    \/ SimpanOpen(p)
    \/ SimpanOpenFail(p)
    \/ SimpanLock(p)
    \/ SimpanWriteHeader(p)
    \/ SimpanWriteHeaderFail(p)
    \/ SimpanWriteRow(p)
    \/ SimpanWriteRowFail(p)
    \/ SimpanUnlock(p)
    \/ SimpanClose(p)
    \/ SimpanCloseFail(p)

\* ------------------------------------------------------------------ reads, reset
AmbilSemua(p) ==
    /\ pc[p] = "idle"
    /\ ops[p] < MaxOps
    /\ ~AmbilSemuaRaises(p)
    /\ ops' = [ops EXCEPT ![p] = @ + 1]
    /\ ret' = [ret EXCEPT ![p] = AmbilSemuaResult(p)]
    /\ cache' = [cache EXCEPT ![p] = AmbilSemuaCache(p)]
    /\ last' = [last EXCEPT ![p] = [op |-> "ambil_semua", ok |-> TRUE]]
    /\ UNCHANGED <<inp, out, fileExists, fileData, lock, pc, arg, file_exists, buf, exc, pre, done>>

\* reading the file raises: ambil_semua raises IOError
AmbilSemuaFail(p) ==
    /\ pc[p] = "idle"
    /\ ops[p] < MaxOps
    /\ AmbilSemuaRaises(p)
    /\ ops' = [ops EXCEPT ![p] = @ + 1]
    /\ last' = [last EXCEPT ![p] = [op |-> "ambil_semua", ok |-> FALSE]]
    /\ UNCHANGED <<inp, out, fileExists, fileData, lock, pc, arg, file_exists, buf, exc,
                   cache, pre, ret, done>>

AmbilBerdasarkanAnggota(p, nomor_anggota) ==
    /\ pc[p] = "idle"
    /\ ops[p] < MaxOps
    /\ ~AmbilSemuaRaises(p)
    /\ ops' = [ops EXCEPT ![p] = @ + 1]
    /\ ret' = [ret EXCEPT ![p] =
                 SelectSeq(AmbilSemuaResult(p), LAMBDA x : x.nomor = nomor_anggota)]
    /\ cache' = [cache EXCEPT ![p] = AmbilSemuaCache(p)]
    /\ last' = [last EXCEPT ![p] = [op |-> "ambil_berdasarkan_anggota", ok |-> TRUE]]
    /\ UNCHANGED <<inp, out, fileExists, fileData, lock, pc, arg, file_exists, buf, exc, pre, done>>

\* open(self.filepath, 'w') truncates (or creates) the file; self._cache = None
HapusSemua(p) ==
    /\ pc[p] = "idle"
    /\ ops[p] < MaxOps
    /\ ops' = [ops EXCEPT ![p] = @ + 1]
    /\ pre' = [pre EXCEPT ![p] = Snapshot(p)]
    /\ fileExists' = TRUE
    /\ fileData' = <<>>
    /\ cache' = [cache EXCEPT ![p] = CacheAfterHapus(p)]
    /\ last' = [last EXCEPT ![p] = [op |-> "hapus_semua", ok |-> TRUE]]
    /\ UNCHANGED <<inp, out, lock, pc, arg, file_exists, buf, exc, ret, done>>

\* open(self.filepath, 'w') raises: hapus_semua raises IOError
HapusSemuaFail(p) ==
    /\ pc[p] = "idle"
    /\ ops[p] < MaxOps
    /\ ops' = [ops EXCEPT ![p] = @ + 1]
    /\ pre' = [pre EXCEPT ![p] = Snapshot(p)]
    /\ last' = [last EXCEPT ![p] = [op |-> "hapus_semua", ok |-> FALSE]]
    /\ UNCHANGED <<inp, out, fileExists, fileData, lock, pc, arg, file_exists, buf, exc, cache,
                   ret, done>>

\* ------------------------------------------------------------------ specifications
\* one process, one repository instance, no other writer
NextSingle ==
    \/ \E pinjaman \in Loans : SimpanCall(1, pinjaman)
    \/ SimpanStep(1)
    \/ AmbilSemua(1)
    \/ \E nomor_anggota \in Nomors : AmbilBerdasarkanAnggota(1, nomor_anggota)
    \/ HapusSemua(1)
    \/ HapusSemuaFail(1)

SpecSingle == Init /\ [][NextSingle]_vars

\* two processes appending to the same file; process p saves its own loans
ConcLoans(p) == {l \in Loans : l.jumlah = 120 /\ l.jenis = "KONSUMTIF"
                               /\ l.nomor = <<"0", "0", "0", DigitChars[p + 1]>>}

NextAppend ==
    \E p \in Procs :
        \/ \E pinjaman \in ConcLoans(p) : ops[p] < MaxAppends /\ SimpanCall(p, pinjaman)
        \/ SimpanStep(p)

SpecAppend == Init /\ [][NextAppend]_vars

\* each simpan under way goes on; flock grants a released lock to a blocked caller
FairSpecAppend ==
    /\ SpecAppend
    /\ \A p \in Procs : WF_vars(SimpanStep(p)) /\ SF_vars(SimpanLock(p))

\* ------------------------------------------------------------------ properties
Idle(p) == pc[p] = "idle"

Returned(p, op, ok) == Idle(p) /\ last[p].op = op /\ last[p].ok = ok

\* what parsing the current file from scratch yields
ParseNow == IF fileExists THEN ParseFile(fileData) ELSE <<>>

HeaderLines(data) == {i \in 1..Len(Lines(data)) : Lines(data)[i] = CSV_HEADERS}

\* C1: if ambil_semua would return S just before a successful simpan of a pinjaman
\* with an integer-valued jumlah, then afterwards ambil_semua returns S extended
\* by that pinjaman (SpecSingle).
C1_AppendExtendsReadAll ==
    (Returned(1, "simpan", TRUE) /\ arg[1].jumlah % Scale = 0)
        => AmbilSemuaResult(1) = Append(pre[1].list, arg[1])

\* C2: whenever the storage file is non-empty, its first line is the header row
\* and the header row occurs exactly once (SpecSingle).
C2_HeaderFirstAndOnce ==
    (fileExists /\ fileData # <<>>)
        => /\ Lines(fileData)[1] = CSV_HEADERS
           /\ Cardinality(HeaderLines(fileData)) = 1

\* C3: when both processes have appended once to a file that did not exist, the
\* file is the header row, once and first, followed by the two record lines
\* (SpecAppend).
C3_ConcurrentHeaderOnce ==
    (\A p \in Procs : Returned(p, "simpan", TRUE) /\ ops[p] = 1)
        => /\ Len(Lines(fileData)) = 3
           /\ Lines(fileData)[1] = CSV_HEADERS
           /\ HeaderLines(fileData) = {1}
           /\ {Lines(fileData)[2], Lines(fileData)[3]} = {RowFields(arg[p]) : p \in Procs}

\* C4: a step of process p that transfers bytes to the storage file is taken while
\* p holds the exclusive lock (SpecAppend).
C4_WritesUnderLock ==
    [][\A p \in Procs : (pc'[p] # pc[p] /\ fileData' # fileData) => lock = p]_vars

\* C5: the file consists of whole lines only, each the header row or the complete
\* record of an appended pinjaman, and once no simpan is under way the record lines
\* are exactly those of the successful simpan calls, one each (SpecAppend).
C5_WholeRecordLines ==
    LET ls == Lines(fileData)
        rows == {RowFields(l) : l \in UNION {ConcLoans(p) : p \in Procs}}
    IN  /\ fileData # <<>> => fileData[Len(fileData)] = NL
        /\ \A i \in 1..Len(ls) : ls[i] = CSV_HEADERS \/ ls[i] \in rows
        /\ (\A p \in Procs : Idle(p))
              => \A r \in rows :
                    Cardinality({i \in 1..Len(ls) : ls[i] = r})
                        = Cardinality({k \in 1..Len(done) : RowFields(done[k]) = r})

C5_Witness ==
    /\ \A p \in Procs : Idle(p)
    /\ Len(done) = 2
    /\ \E p, q \in Procs : p # q /\ done = <<arg[p], arg[q]>> /\ ~pre[q].exists

\* C6: a process that is not inside simpan (or has left its finally clause) does not
\* hold the lock, and a process blocked in flock eventually holds the lock
\* (FairSpecAppend).
C6_LockReleased ==
    /\ [](\A p \in Procs : pc[p] \in {"idle", "close"} => lock # p)
    /\ \A p \in Procs : (pc[p] = "lock") ~> (lock = p)

C6_Witness ==
    \E p, q \in Procs : p # q /\ pc[p] = "close" /\ exc[p] /\ pc[q] = "lock"
                               /\ lock = NoProc

\* C7: when simpan raises IOError, the file (existence and contents) and the read
\* cache are as they were at the call (SpecSingle).
C7_FailedAppendNoChange ==
    Returned(1, "simpan", FALSE)
        => /\ fileExists = pre[1].exists
           /\ fileData = pre[1].data
           /\ cache[1] = pre[1].cache

\* C8: after a successful simpan on a file that did not exist, ambil_semua returns
\* exactly the saved pinjaman (SpecSingle).
C8_AppendReadRoundTrip ==
    (Returned(1, "simpan", TRUE) /\ ~pre[1].exists) => AmbilSemuaResult(1) = <<arg[1]>>

\* C9: between calls, ambil_semua returns what parsing the current file from
\* scratch yields (SpecSingle).
C9_CacheConsistent == Idle(1) => AmbilSemuaResult(1) = ParseNow

C9_Witness ==
    /\ Returned(1, "simpan", TRUE)
    /\ pre[1].cache.valid
    /\ AmbilSemuaResult(1) # pre[1].list

\* C10: after hapus_semua, ambil_semua returns the empty list (SpecSingle).
C10_ClearThenReadEmpty == Returned(1, "hapus_semua", TRUE) => AmbilSemuaResult(1) = <<>>

C10_Witness ==
    /\ Returned(1, "hapus_semua", TRUE)
    /\ pre[1].cache.valid
    /\ pre[1].list # <<>>
    /\ pre[1].data # <<>>

\* ------------------------------------------------------------------ reading any file
MaxLines == 2        \* data lines of the file that is read

\* the data lines a storage file may hold: the fields of the line, and the Pinjaman
\* _from_csv_row is to make of it (<<>> for a malformed line)
FileLines ==
    LET m1 == <<"0", "0", "0", "1">>
        m2 == <<"0", "0", "0", "2">>
        nm == <<"B">>
        tw == <<"1", "2">>
    IN  { [fields |-> <<m1, nm, <<"A">>, tw, tw>>,
           loan |-> <<Pinjaman(m1, nm, "KONSUMTIF", 120, 12)>>],
          [fields |-> <<<<SPACE>> \o m2, nm, <<"b">>, <<"2", ".", "5">>, tw>>,
           loan |-> <<Pinjaman(m2, nm, "MODAL", 25, 12)>>],
          [fields |-> <<>>, loan |-> <<>>],
          [fields |-> <<m1, nm, <<"A">>>>, loan |-> <<>>],
          [fields |-> <<m1, nm, <<"A">>, <<"x">>, tw>>, loan |-> <<>>],
          [fields |-> <<m1, nm, <<"C">>, tw, tw>>, loan |-> <<>>],
          [fields |-> <<m1, nm, <<"A">>, tw, <<"0">>>>, loan |-> <<>>],
          [fields |-> <<m1, nm, <<"A">>, <<MINUS>> \o tw, tw>>, loan |-> <<>>],
          [fields |-> <<m1, <<SPACE>>, <<"A">>, tw, tw>>, loan |-> <<>>],
          [fields |-> <<m1, <<BADBYTE>>, <<"A">>, tw, tw>>, loan |-> <<>>] }

LineSeqs == UNION {[1..n -> FileLines] : n \in 0..MaxLines}

\* a file written by simpan (header first) to which the lines ls were added
FileOf(ls) ==
    HeaderBytes \o Flatten([i \in 1..Len(ls) |-> Join(ls[i].fields, COMMA) \o <<NL>>])

\* a new repository instance over an existing file
InitRead ==
    /\ \E ls \in LineSeqs : inp = ls /\ fileData = FileOf(ls)
    /\ fileExists = TRUE
    /\ lock = NoProc
    /\ pc = [p \in Procs |-> "idle"]
    /\ arg = [p \in Procs |-> AnyLoan]
    /\ file_exists = [p \in Procs |-> FALSE]
    /\ buf = [p \in Procs |-> <<>>]
    /\ exc = [p \in Procs |-> FALSE]
    /\ cache = [p \in Procs |-> NoCache]
    /\ ops = [p \in Procs |-> 0]
    /\ last = [p \in Procs |-> [op |-> "none", ok |-> TRUE]]
    /\ pre = [p \in Procs |-> [exists |-> FALSE, data |-> <<>>, cache |-> NoCache,
                               list |-> <<>>]]
    /\ ret = [p \in Procs |-> <<>>]
    /\ done = <<>>
    /\ out = Pending

NextRead ==
    \/ AmbilSemua(1)
    \/ AmbilSemuaFail(1)

SpecRead == InitRead /\ [][NextRead]_vars

\* C11: ambil_semua never fails because of a malformed record line: for a file whose
\* data lines are any mix of well-formed and malformed records it succeeds and
\* returns exactly the Pinjaman of the well-formed lines, in file order.
C11_MalformedLinesSkipped ==
    last[1].op = "ambil_semua" =>
        /\ last[1].ok
        /\ ret[1] = Flatten([i \in 1..Len(inp) |-> inp[i].loan])

\* the same, for files every line of which decodes as UTF-8
C11_DecodableLinesSkipped ==
    (last[1].op = "ambil_semua"
        /\ \A i \in 1..Len(inp) : \A k \in 1..Len(inp[i].fields) :
               \A c \in 1..Len(inp[i].fields[k]) : inp[i].fields[k][c] # BADBYTE)
    => /\ last[1].ok
       /\ ret[1] = Flatten([i \in 1..Len(inp) |-> inp[i].loan])

\* ------------------------------------------------------------------ service
\* a character str.isdigit accepts that is not one of 0-9 (SUPERSCRIPT TWO)
SUP2 == "U+00B2"

\* str.isdigit()
isdigit(t) == Len(t) > 0 /\ \A i \in 1..Len(t) : IsDigitChar(t[i]) \/ t[i] = SUP2

PanjangNomor == 4
LamaMaksimum == 120
JumlahMinimum == 100000

\* the messages of the ValueErrors (that of dari_kode without the code it quotes)
R_NomorKosong == "Nomor anggota tidak boleh kosong"
R_NomorAngka == "Nomor anggota harus berupa angka"
R_Nomor4Digit == "Nomor anggota harus 4 digit (contoh: 1001)"
R_NamaKosong == "Nama anggota tidak boleh kosong"
R_KodeJenis == "Kode jenis harus A (Konsumtif) atau B (Modal)"
R_JumlahNol == "Jumlah pinjaman harus lebih dari 0"
R_LamaNol == "Lama pinjaman harus lebih dari 0 bulan"
R_LamaMaksimum == "Lama pinjaman maksimal 120 bulan (10 tahun)"
R_JumlahMinimum == "Jumlah pinjaman minimal Rp 100,000"
R_KodeTidakValid == "Kode pinjaman tidak valid"
R_LamaNolModel == "Lama pinjaman harus lebih dari 0"

\* no ValueError
Lolos == ""

\* _validasi_input, nomor anggota: the message raised, or Lolos
ValidasiNomorTanpaAngka(nomor_anggota) ==
    IF Len(nomor_anggota) = 0 \/ Len(Strip(nomor_anggota)) = 0 THEN R_NomorKosong
    ELSE IF Len(Strip(nomor_anggota)) # PanjangNomor THEN R_Nomor4Digit
    ELSE Lolos

ValidasiNomor(nomor_anggota) ==
    IF Len(nomor_anggota) = 0 \/ Len(Strip(nomor_anggota)) = 0 THEN R_NomorKosong
    ELSE IF ~isdigit(Strip(nomor_anggota)) THEN R_NomorAngka
    ELSE IF Len(Strip(nomor_anggota)) # PanjangNomor THEN R_Nomor4Digit
    ELSE Lolos

\* _validasi_input, the business rules on jumlah (in tenths) and lama_bulan
ValidasiBatasInklusif(jumlah, lama_bulan) ==
    IF lama_bulan > LamaMaksimum THEN R_LamaMaksimum
    ELSE IF jumlah <= JumlahMinimum * Scale THEN R_JumlahMinimum
    ELSE Lolos

ValidasiBatas(jumlah, lama_bulan) ==
    IF lama_bulan > LamaMaksimum THEN R_LamaMaksimum
    ELSE IF jumlah < JumlahMinimum * Scale THEN R_JumlahMinimum
    ELSE Lolos

\* _validasi_input: the message of the ValueError raised, or Lolos
validasi_input(nomor_anggota, nama_anggota, kode_jenis, jumlah, lama_bulan) ==
    IF ValidasiNomor(nomor_anggota) # Lolos THEN ValidasiNomor(nomor_anggota)
    ELSE IF Len(nama_anggota) = 0 \/ Len(Strip(nama_anggota)) = 0 THEN R_NamaKosong
    ELSE IF Upper(Strip(kode_jenis)) \notin {<<"A">>, <<"B">>} THEN R_KodeJenis
    ELSE IF jumlah <= 0 THEN R_JumlahNol
    ELSE IF lama_bulan <= 0 THEN R_LamaNol
    ELSE ValidasiBatas(jumlah, lama_bulan)

\* str(jumlah) of a float with at most one decimal place: "ddd.d"
StrFloat(jumlah) ==
    IF jumlah < 0
    THEN <<MINUS>> \o StrInt((0 - jumlah) \div Scale) \o <<".">>
                   \o StrInt((0 - jumlah) % Scale)
    ELSE StrInt(jumlah \div Scale) \o <<".">> \o StrInt(jumlah % Scale)

Raised(reason) == [status |-> "ValueError", value |-> <<>>, reason |-> reason,
                   reads |-> <<>>]

Ok(pinjaman) == [status |-> "ok", value |-> <<pinjaman>>, reason |-> Lolos,
                 reads |-> <<>>]

\* Anggota.__post_init__: the message of the ValueError raised, or Lolos
AnggotaRaises(nomor, nama) ==
    IF Len(nomor) = 0 \/ Len(Strip(nomor)) = 0 THEN R_NomorKosong
    ELSE IF Len(nama) = 0 \/ Len(Strip(nama)) = 0 THEN R_NamaKosong
    ELSE Lolos

\* Pinjaman.__post_init__: the message of the ValueError raised, or Lolos
PinjamanRaisesNegatif(jumlah, lama_bulan) ==
    IF jumlah < 0 THEN R_JumlahNol
    ELSE IF lama_bulan < 0 THEN R_LamaNolModel
    ELSE Lolos

PinjamanRaises(jumlah, lama_bulan) ==
    IF jumlah <= 0 THEN R_JumlahNol
    ELSE IF lama_bulan <= 0 THEN R_LamaNolModel
    ELSE Lolos

\* buat_pinjaman: the Pinjaman returned or the ValueError raised
buat_pinjaman(nomor_anggota, nama_anggota, kode_jenis, jumlah, lama_bulan) ==
    LET v == validasi_input(nomor_anggota, nama_anggota, kode_jenis, jumlah, lama_bulan)
        a == AnggotaRaises(nomor_anggota, nama_anggota)
        d == CHOOSE x \in DecimalOf(StrFloat(jumlah)) : TRUE
    IN  IF v # Lolos THEN Raised(v)
        ELSE IF a # Lolos THEN Raised(a)
        ELSE IF dari_kode(kode_jenis) = {} THEN Raised(R_KodeTidakValid)
        ELSE IF PinjamanRaises(d, lama_bulan) # Lolos
             THEN Raised(PinjamanRaises(d, lama_bulan))
        ELSE Ok(Pinjaman(nomor_anggota, nama_anggota,
                         CHOOSE j \in dari_kode(kode_jenis) : TRUE, d, lama_bulan))

\* the arguments given to buat_pinjaman
InNomors == {<<>>, <<SPACE>>, <<"1", "2", "3">>, <<"1", "2", "3", "4", "5">>,
             <<"1", "a", "0", "1">>, <<"1", "0", "0", "1">>,
             <<SPACE, "1", "0", "0", "1", SPACE>>, <<SUP2, SUP2, SUP2>>,
             <<SUP2, SUP2, SUP2, SUP2>>}
InNamas == {<<>>, <<SPACE>>, <<"B">>, <<SPACE, "B", SPACE>>}
InKodes == {<<>>, <<"A">>, <<"b">>, <<SPACE, "a", SPACE>>, <<"C">>}
InJumlahs == {0 - 10, 0, 5, 50000 * Scale, JumlahMinimum * Scale - 1,
              JumlahMinimum * Scale, JumlahMinimum * Scale + 5}
InLamas == {0 - 1, 0, 1, LamaMaksimum, LamaMaksimum + 1, 150}

CreateInputs == [nomor_anggota : InNomors, nama_anggota : InNamas, kode_jenis : InKodes,
                 jumlah : InJumlahs, lama_bulan : InLamas]

\* service.buat_pinjaman(...) called by process p
BuatPinjamanMenyimpan(p, a) ==
    /\ pc[p] = "idle"
    /\ inp' = a
    /\ out' = buat_pinjaman(a.nomor_anggota, a.nama_anggota, a.kode_jenis, a.jumlah,
                            a.lama_bulan)
    /\ last' = [last EXCEPT ![p] = [op |-> "buat_pinjaman", ok |-> out'.status = "ok"]]
    /\ fileExists' = (fileExists \/ out'.status = "ok")
    /\ fileData' = IF out'.status = "ok" THEN fileData \o RowBytes(out'.value[1])
                   ELSE fileData
    /\ UNCHANGED <<lock, pc, arg, file_exists, buf, exc, cache, ops, pre, ret, done>>

BuatPinjaman(p, a) ==
    /\ pc[p] = "idle"
    /\ inp' = a
    /\ out' = buat_pinjaman(a.nomor_anggota, a.nama_anggota, a.kode_jenis, a.jumlah,
                            a.lama_bulan)
    /\ last' = [last EXCEPT ![p] = [op |-> "buat_pinjaman", ok |-> out'.status = "ok"]]
    /\ UNCHANGED <<fileExists, fileData, lock, pc, arg, file_exists, buf, exc, cache, ops,
                   pre, ret, done>>

\* one call of buat_pinjaman on a new service
InitCreate ==
    /\ inp \in CreateInputs
    /\ out = Pending
    /\ fileExists = FALSE
    /\ fileData = <<>>
    /\ lock = NoProc
    /\ pc = [p \in Procs |-> "idle"]
    /\ arg = [p \in Procs |-> AnyLoan]
    /\ file_exists = [p \in Procs |-> FALSE]
    /\ buf = [p \in Procs |-> <<>>]
    /\ exc = [p \in Procs |-> FALSE]
    /\ cache = [p \in Procs |-> NoCache]
    /\ ops = [p \in Procs |-> 0]
    /\ last = [p \in Procs |-> [op |-> "none", ok |-> TRUE]]
    /\ pre = [p \in Procs |-> [exists |-> FALSE, data |-> <<>>, cache |-> NoCache,
                               list |-> <<>>]]
    /\ ret = [p \in Procs |-> <<>>]
    /\ done = <<>>

NextCreate == out = Pending /\ BuatPinjaman(1, inp)

SpecCreate == InitCreate /\ [][NextCreate]_vars

\* C12: buat_pinjaman surfaces exactly one reason per call, that of the first violated
\* rule in the order: (1) nomor anggota non-empty after trimming, (2) nomor anggota
\* exactly 4 digits, (3) nama non-empty after trimming, (4) kode in {A, B} ignoring
\* case, (5) jumlah > 0, (6) lama > 0, (7) lama <= 120, (8) jumlah >= 100000; and no
\* reason when no rule is violated.
C12_FirstViolatedRule ==
    out.status # "pending" =>
        LET nomor == Strip(inp.nomor_anggota)
            only(reasons) == out.status = "ValueError" /\ out.reason \in reasons
        IN  IF Len(nomor) = 0 THEN only({R_NomorKosong})
            ELSE IF ~(Len(nomor) = PanjangNomor /\ AllDigits(nomor))
                 THEN only({R_NomorAngka, R_Nomor4Digit})
            ELSE IF Len(Strip(inp.nama_anggota)) = 0 THEN only({R_NamaKosong})
            ELSE IF Upper(Strip(inp.kode_jenis)) \notin {<<"A">>, <<"B">>}
                 THEN only({R_KodeJenis})
            ELSE IF inp.jumlah <= 0 THEN only({R_JumlahNol})
            ELSE IF inp.lama_bulan <= 0 THEN only({R_LamaNol})
            ELSE IF inp.lama_bulan > LamaMaksimum THEN only({R_LamaMaksimum})
            ELSE IF inp.jumlah < JumlahMinimum * Scale THEN only({R_JumlahMinimum})
            ELSE out.status = "ok"

\* C13 (as stated): buat_pinjaman rejects every nomor anggota that is not exactly four
\* digits (too short, too long, or containing a non-digit) with a ValueError whose
\* message is the one about the 4-digit rule.
C13_RejectedWith4DigitReason ==
    LET nomor == Strip(inp.nomor_anggota)
    IN  (out.status # "pending" /\ ~(Len(nomor) = PanjangNomor /\ AllDigits(nomor)))
        => out.status = "ValueError" /\ out.reason = R_Nomor4Digit

\* C13 (amended): buat_pinjaman rejects a nomor anggota that is blank with the message
\* that it must not be empty, one that has a character str.isdigit refuses with the
\* message that it must be numeric, and one made of digits but not four of them with
\* the message about the 4-digit rule.
C13_RejectedWithIdReason ==
    LET nomor == Strip(inp.nomor_anggota)
    IN  out.status # "pending" =>
            /\ Len(nomor) = 0
                   => out.status = "ValueError" /\ out.reason = R_NomorKosong
            /\ (Len(nomor) > 0 /\ ~isdigit(nomor))
                   => out.status = "ValueError" /\ out.reason = R_NomorAngka
            /\ (isdigit(nomor) /\ Len(nomor) # PanjangNomor)
                   => out.status = "ValueError" /\ out.reason = R_Nomor4Digit

C13_Witness ==
    /\ inp.nomor_anggota = <<"1", "a", "0", "1">>
    /\ out.status = "ValueError"
    /\ out.reason = R_NomorAngka

\* C14: buat_pinjaman returns a Pinjaman only if the trimmed nomor anggota is exactly
\* 4 characters that are all ASCII digits 0-9.
C14_OnlyFourAsciiDigits ==
    out.status = "ok" =>
        LET nomor == Strip(inp.nomor_anggota)
        IN  Len(nomor) = PanjangNomor /\ AllDigits(nomor)

\* C15: for every input that satisfies all eight validation rules, taken on the
\* trimmed, case-folded values, buat_pinjaman raises no error and returns a Pinjaman
\* whose nomor and nama are the trimmed inputs, whose jenis is the one with that kode
\* and whose jumlah and lama_bulan are the ones given.
C15_ValidInputGivesLoan ==
    LET nomor == Strip(inp.nomor_anggota)
        nama == Strip(inp.nama_anggota)
        kd == Upper(Strip(inp.kode_jenis))
    IN  (/\ out.status # "pending"
         /\ Len(nomor) = PanjangNomor /\ AllDigits(nomor)
         /\ Len(nama) > 0
         /\ kd \in {<<"A">>, <<"B">>}
         /\ inp.jumlah >= JumlahMinimum * Scale
         /\ inp.lama_bulan > 0 /\ inp.lama_bulan <= LamaMaksimum)
        => /\ out.status = "ok"
           /\ out.value[1].nomor = nomor
           /\ out.value[1].nama = nama
           /\ kode(out.value[1].jenis) = kd
           /\ out.value[1].jumlah = inp.jumlah
           /\ out.value[1].lama_bulan = inp.lama_bulan

\* C16: with the other fields valid (nomor of four ASCII digits, a nama, kode A or B in
\* either case), buat_pinjaman rejects every jumlah with 0 < jumlah < 100000 with the
\* minimum-amount message and every lama_bulan > 120 with the maximum-term message;
\* the two messages differ, and jumlah = 100000 with lama_bulan = 120 is accepted.
C16_AmountAndTermLimits ==
    LET nomor == Strip(inp.nomor_anggota)
        others == /\ Len(nomor) = PanjangNomor /\ AllDigits(nomor)
                  /\ Len(Strip(inp.nama_anggota)) > 0
                  /\ Upper(inp.kode_jenis) \in {<<"A">>, <<"B">>}
    IN  /\ R_JumlahMinimum # R_LamaMaksimum
        /\ (out.status # "pending" /\ others) =>
            /\ (/\ 0 < inp.jumlah /\ inp.jumlah < JumlahMinimum * Scale
                /\ 0 < inp.lama_bulan /\ inp.lama_bulan <= LamaMaksimum)
                   => out.status = "ValueError" /\ out.reason = R_JumlahMinimum
            /\ (inp.lama_bulan > LamaMaksimum /\ inp.jumlah >= JumlahMinimum * Scale)
                   => out.status = "ValueError" /\ out.reason = R_LamaMaksimum
            /\ (inp.jumlah = JumlahMinimum * Scale /\ inp.lama_bulan = LamaMaksimum)
                   => out.status = "ok"

C16_Witness ==
    /\ inp.nomor_anggota = <<"1", "0", "0", "1">>
    /\ inp.nama_anggota = <<"B">>
    /\ inp.kode_jenis = <<"A">>
    /\ inp.jumlah = JumlahMinimum * Scale - 1
    /\ inp.lama_bulan = LamaMaksimum
    /\ out.status = "ValueError"
    /\ out.reason = R_JumlahMinimum

\* ------------------------------------------------------------------ service and store
\* the arguments the service is called with when it runs over the repository
ServiceInputs ==
    {a \in CreateInputs :
        /\ a.nomor_anggota \in {<<"1", "0", "0", "1">>, <<"1", "2", "3">>}
        /\ a.nama_anggota = <<"B">>
        /\ a.kode_jenis \in {<<"A">>, <<SPACE, "a", SPACE>>}
        /\ a.jumlah \in {JumlahMinimum * Scale, 50000 * Scale}
        /\ a.lama_bulan = LamaMaksimum}

\* service.simpan_pinjaman(pinjaman) with the Pinjaman buat_pinjaman returned
SimpanPinjaman(p) ==
    /\ out.status = "ok"
    /\ SimpanCall(p, out.value[1])

NextService ==
    \/ \E a \in ServiceInputs : BuatPinjaman(1, a)
    \/ SimpanPinjaman(1)
    \/ SimpanStep(1)
    \/ AmbilSemua(1)

SpecService == Init /\ [][NextService]_vars

\* C17: buat_pinjaman never changes stored state: whether it returns a Pinjaman or
\* raises ValueError, the storage file and the repository's cache are unchanged and
\* ambil_semua returns after the call what it returned before; the file changes
\* only inside simpan.
C17_CreateLeavesStoreAlone ==
    [][/\ (pc[1] = "idle" /\ pc'[1] = "idle" /\ last'[1].op = "buat_pinjaman")
          => /\ fileExists' = fileExists
             /\ fileData' = fileData
             /\ cache' = cache
             /\ AmbilSemuaResult(1) =
                    IF cache'[1].valid THEN cache'[1].list
                    ELSE IF ~fileExists' THEN <<>> ELSE ParseFile(fileData')
       /\ (fileExists' # fileExists \/ fileData' # fileData) => pc[1] # "idle"]_vars

C17_Witness ==
    /\ last[1].op = "buat_pinjaman"
    /\ out.status = "ok"
    /\ fileExists
    /\ cache[1].valid
    /\ cache[1].list # <<>>

\* ------------------------------------------------------------------ constructing a Pinjaman
\* Pinjaman(anggota=Anggota(nomor, nama), jenis=jenis, jumlah=jumlah, lama_bulan=lama_bulan)
NewPinjaman(nomor, nama, jenis, jumlah, lama_bulan) ==
    IF AnggotaRaises(nomor, nama) # Lolos THEN Raised(AnggotaRaises(nomor, nama))
    ELSE IF PinjamanRaises(jumlah, lama_bulan) # Lolos
         THEN Raised(PinjamanRaises(jumlah, lama_bulan))
    ELSE Ok(Pinjaman(nomor, nama, jenis, jumlah, lama_bulan))

\* Pinjaman.dari_dict(data), of the entries of data it reads; jumlah_pinjaman is a float
dari_dict(nomor_anggota, nama_anggota, kode_pinjaman, jumlah_pinjaman, lama_bulan) ==
    IF AnggotaRaises(nomor_anggota, nama_anggota) # Lolos
    THEN Raised(AnggotaRaises(nomor_anggota, nama_anggota))
    ELSE IF dari_kode(kode_pinjaman) = {} THEN Raised(R_KodeTidakValid)
    ELSE NewPinjaman(nomor_anggota, nama_anggota,
                     CHOOSE j \in dari_kode(kode_pinjaman) : TRUE,
                     CHOOSE d \in DecimalOf(StrFloat(jumlah_pinjaman)) : TRUE, lama_bulan)

\* str(n) of an int
StrSigned(n) == IF n < 0 THEN <<MINUS>> \o StrInt(0 - n) ELSE StrInt(n)

\* the csv row holding the values of a
RowOf(a) == <<a.nomor_anggota, a.nama_anggota, a.kode_jenis, StrFloat(a.jumlah),
              StrSigned(a.lama_bulan)>>

R_InvalidData == "Invalid data format"

\* the ways a Pinjaman comes to be
Routes == {"Pinjaman", "dari_dict", "buat_pinjaman", "_from_csv_row", "ambil_semua"}

LoanJumlahs == {0 - 10, 0 - 1, 0, 1, 5, 120, JumlahMinimum * Scale}
LoanLamas == {0 - 12, 0 - 1, 0, 1, 12, LamaMaksimum}

LoanInputs == [via : Routes, nomor_anggota : {<<"1", "0", "0", "1">>},
               nama_anggota : {<<"B">>}, kode_jenis : {<<"A">>, <<"B">>},
               jumlah : LoanJumlahs, lama_bulan : LoanLamas]

\* one construction; on the ambil_semua route the file holds the values as its record
InitLoan ==
    /\ inp \in LoanInputs
    /\ out = Pending
    /\ fileExists = (inp.via = "ambil_semua")
    /\ fileData = IF inp.via = "ambil_semua"
                  THEN HeaderBytes \o Join(RowOf(inp), COMMA) \o <<NL>>
                  ELSE <<>>
    /\ lock = NoProc
    /\ pc = [p \in Procs |-> "idle"]
    /\ arg = [p \in Procs |-> AnyLoan]
    /\ file_exists = [p \in Procs |-> FALSE]
    /\ buf = [p \in Procs |-> <<>>]
    /\ exc = [p \in Procs |-> FALSE]
    /\ cache = [p \in Procs |-> NoCache]
    /\ ops = [p \in Procs |-> 0]
    /\ last = [p \in Procs |-> [op |-> "none", ok |-> TRUE]]
    /\ pre = [p \in Procs |-> [exists |-> FALSE, data |-> <<>>, cache |-> NoCache,
                               list |-> <<>>]]
    /\ ret = [p \in Procs |-> <<>>]
    /\ done = <<>>

\* the outcome of a construction
Outcome(o) ==
    /\ out' = o
    /\ UNCHANGED <<inp, fileExists, fileData, lock, pc, arg, file_exists, buf, exc,
                   cache, ops, last, pre, ret, done>>

ConstructPinjaman ==
    /\ inp.via = "Pinjaman"
    /\ out = Pending
    /\ Outcome(NewPinjaman(inp.nomor_anggota, inp.nama_anggota,
                           CHOOSE j \in dari_kode(inp.kode_jenis) : TRUE,
                           inp.jumlah, inp.lama_bulan))

DariDict ==
    /\ inp.via = "dari_dict"
    /\ out = Pending
    /\ Outcome(dari_dict(inp.nomor_anggota, inp.nama_anggota, inp.kode_jenis,
                         inp.jumlah, inp.lama_bulan))

FromCsvRow ==
    /\ inp.via = "_from_csv_row"
    /\ out = Pending
    /\ LET made == from_csv_row(CSV_HEADERS, RowOf(inp))
       IN  Outcome(IF made = <<>> THEN Raised(R_InvalidData) ELSE Ok(made[1]))

NextLoan ==
    \/ ConstructPinjaman
    \/ DariDict
    \/ FromCsvRow
    \/ inp.via = "buat_pinjaman" /\ out = Pending /\ BuatPinjaman(1, inp)
    \/ inp.via = "ambil_semua" /\ AmbilSemua(1)

SpecLoan == InitLoan /\ [][NextLoan]_vars

\* C18: every Pinjaman that is constructed, by the constructor, buat_pinjaman,
\* dari_dict, _from_csv_row or ambil_semua, has jumlah > 0 and lama_bulan > 0;
\* construction with jumlah <= 0 or lama_bulan <= 0 raises ValueError and yields
\* no Pinjaman.
C18_PositiveAmountAndTerm ==
    /\ out.status = "ok" => out.value[1].jumlah > 0 /\ out.value[1].lama_bulan > 0
    /\ \A i \in 1..Len(ret[1]) : ret[1][i].jumlah > 0 /\ ret[1][i].lama_bulan > 0
    /\ (inp.jumlah <= 0 \/ inp.lama_bulan <= 0) =>
          /\ out.status # "pending" => out.status = "ValueError" /\ out.value = <<>>
          /\ ret[1] = <<>>

C18_Witness ==
    /\ inp.via = "Pinjaman"
    /\ inp.jumlah = 0
    /\ inp.lama_bulan = 12
    /\ out.status = "ValueError"
    /\ out.reason = R_JumlahNol

\* ------------------------------------------------------------------ Decimal arithmetic
\* A non-negative Decimal is its coefficient, a sequence of the digits 0..9 with the
\* most significant first and without leading or trailing zeros (<<>> for zero), and
\* its exponent: the number it denotes.  Every operation is the exact one followed by
\* the rounding of the default context: Prec significant digits, ROUND_HALF_EVEN.
Prec == 28

RECURSIVE StripLeft(_)
StripLeft(c) == IF c # <<>> /\ c[1] = 0 THEN StripLeft(Tail(c)) ELSE c

RECURSIVE Norm(_, _)
Norm(c, e) ==
    LET s == StripLeft(c)
    IN  IF s = <<>> THEN [c |-> <<>>, e |-> 0]
        ELSE IF s[Len(s)] = 0 THEN Norm(SubSeq(s, 1, Len(s) - 1), e + 1)
        ELSE [c |-> s, e |-> e]

Zeros(n) == [i \in 1..n |-> 0]

\* the digits of a text of digits; the digits of an int; the int of a few digits
TextDigits(t) == [i \in 1..Len(t) |-> DigitVal(t[i])]

DigitsOf(n) == TextDigits(StrInt(n))

RECURSIVE NumOf(_)
NumOf(c) == IF c = <<>> THEN 0
            ELSE 10 * NumOf(SubSeq(c, 1, Len(c) - 1)) + c[Len(c)]

\* c + 1
RECURSIVE Inc(_)
Inc(c) == IF c = <<>> THEN <<1>>
          ELSE IF c[Len(c)] < 9 THEN [c EXCEPT ![Len(c)] = @ + 1]
          ELSE Append(Inc(SubSeq(c, 1, Len(c) - 1)), 0)

\* the context's rounding of the number with digits c0 and exponent e
Round(c0, e) ==
    LET c == StripLeft(c0)
    IN  IF Len(c) <= Prec THEN Norm(c, e)
        ELSE LET kept == SubSeq(c, 1, Prec)
                 d == c[Prec + 1]
                 rest == \E i \in (Prec + 2)..Len(c) : c[i] # 0
                 up == d > 5 \/ (d = 5 /\ (rest \/ kept[Prec] % 2 = 1))
             IN  Norm(IF up THEN Inc(kept) ELSE kept, e + Len(c) - Prec)

\* c * m + carry, for an int m
RECURSIVE MulSmall(_, _, _)
MulSmall(c, m, carry) ==
    IF c = <<>> THEN (IF carry = 0 THEN <<>> ELSE DigitsOf(carry))
    ELSE LET t == c[Len(c)] * m + carry
         IN  Append(MulSmall(SubSeq(c, 1, Len(c) - 1), m, t \div 10), t % 10)

\* x + y + carry, for digit sequences of one length
RECURSIVE AddSeq(_, _, _)
AddSeq(x, y, carry) ==
    IF x = <<>> THEN (IF carry = 0 THEN <<>> ELSE <<carry>>)
    ELSE LET t == x[Len(x)] + y[Len(y)] + carry
         IN  Append(AddSeq(SubSeq(x, 1, Len(x) - 1), SubSeq(y, 1, Len(y) - 1), t \div 10),
                    t % 10)

\* long division of c by the int n, on until the remainder is 0 or Prec significant
\* digits are out: the quotient digits q, the remainder r, the k zeros brought down
RECURSIVE LongDiv(_, _, _, _, _)
LongDiv(c, n, i, r, q) ==
    IF i > Len(c) /\ (r = 0 \/ Len(StripLeft(q)) >= Prec)
    THEN [q |-> q, r |-> r, k |-> i - 1 - Len(c)]
    ELSE LET t == 10 * r + (IF i <= Len(c) THEN c[i] ELSE 0)
         IN  LongDiv(c, n, i + 1, t % n, Append(q, t \div n))

\* Decimal(text) of a text of digits; Decimal of a number of tenths
DecimalText(t) == Norm(TextDigits(t), 0)

DecimalTenths(j) == Norm(DigitsOf(j), 0 - 1)

\* a * b, where the coefficient of b has few digits
DecMul(a, b) == Round(MulSmall(a.c, NumOf(b.c), 0), a.e + b.e)

\* a / b, where the coefficient of b has few digits
DecDiv(a, b) ==
    LET n == NumOf(b.c)
        d == LongDiv(a.c, n, 1, 0, <<>>)
        q == StripLeft(d.q)
        up == 2 * d.r > n \/ (2 * d.r = n /\ q[Len(q)] % 2 = 1)
    IN  Norm(IF up THEN Inc(q) ELSE q, a.e - b.e - d.k)

\* the quotient a / b is a decimal of at most Prec digits
DivExact(a, b) == LongDiv(a.c, NumOf(b.c), 1, 0, <<>>).r = 0

\* a + b
DecAdd(a, b) ==
    LET e == IF a.e < b.e THEN a.e ELSE b.e
        x == a.c \o Zeros(a.e - e)
        y == b.c \o Zeros(b.e - e)
        n == IF Len(x) < Len(y) THEN Len(y) ELSE Len(x)
    IN  Round(AddSeq(Zeros(n - Len(x)) \o x, Zeros(n - Len(y)) \o y, 0), e)

\* ------------------------------------------------------------------ derived amounts
\* Pinjaman.bunga_per_bulan
bunga_per_bulanTanpa12(p) ==
    DecMul(DecDiv(DecimalText(StrInt(tingkat_bunga(p.jenis))), DecimalText(<<"1", "0", "0">>)),
           DecimalTenths(p.jumlah))

bunga_per_bulan(p) ==
    DecMul(DecDiv(DecDiv(DecimalText(StrInt(tingkat_bunga(p.jenis))),
                         DecimalText(<<"1", "0", "0">>)),
                  DecimalText(<<"1", "2">>)),
           DecimalTenths(p.jumlah))

\* Pinjaman.pokok_per_bulan
pokok_per_bulan(p) == DecDiv(DecimalTenths(p.jumlah), DecimalText(StrInt(p.lama_bulan)))

\* Pinjaman.angsuran: the value returned, and the object after the read
angsuran(p) ==
    IF p._angsuran = <<>> THEN DecAdd(bunga_per_bulan(p), pokok_per_bulan(p))
    ELSE p._angsuran[1]

AfterAngsuran(p) == [p EXCEPT !._angsuran = <<angsuran(p)>>]

\* Pinjaman.total_bunga, Pinjaman.total_bayar
total_bunga(p) == DecMul(bunga_per_bulan(p), DecimalText(StrInt(p.lama_bulan)))

total_bayar(p) == DecAdd(DecimalTenths(p.jumlah), total_bunga(p))

\* ------------------------------------------------------------------ reading the installment
MaxReads == 2        \* reads of angsuran on one Pinjaman

AngsuranJumlahs == {1, 120, JumlahMinimum * Scale, JumlahMinimum * Scale + 5,
                    300000 * Scale, 10000000 * Scale}
AngsuranLamas == {1, 3, 7, 12, LamaMaksimum}

AngsuranLoans == {Pinjaman(<<"1", "0", "0", "1">>, <<"B">>, j, a, l) :
                     j \in JenisPinjaman, a \in AngsuranJumlahs, l \in AngsuranLamas}

\* a Pinjaman just constructed: inp keeps it as it was, out.value is the object
InitAngsuran ==
    /\ inp \in AngsuranLoans
    /\ out = Ok(inp)
    /\ fileExists = FALSE
    /\ fileData = <<>>
    /\ lock = NoProc
    /\ pc = [p \in Procs |-> "idle"]
    /\ arg = [p \in Procs |-> AnyLoan]
    /\ file_exists = [p \in Procs |-> FALSE]
    /\ buf = [p \in Procs |-> <<>>]
    /\ exc = [p \in Procs |-> FALSE]
    /\ cache = [p \in Procs |-> NoCache]
    /\ ops = [p \in Procs |-> 0]
    /\ last = [p \in Procs |-> [op |-> "none", ok |-> TRUE]]
    /\ pre = [p \in Procs |-> [exists |-> FALSE, data |-> <<>>, cache |-> NoCache,
                               list |-> <<>>]]
    /\ ret = [p \in Procs |-> <<>>]
    /\ done = <<>>

\* pinjaman.angsuran is read: the value is memoized in the object
ReadAngsuran ==
    /\ Len(out.reads) < MaxReads
    /\ Outcome([out EXCEPT !.value = <<AfterAngsuran(out.value[1])>>,
                           !.reads = Append(@, angsuran(out.value[1]))])

NextAngsuran == ReadAngsuran

SpecAngsuran == InitAngsuran /\ [][NextAngsuran]_vars

\* C19: for every valid Pinjaman, angsuran equals (rate/100/12)*jumlah + jumlah/lama,
\* the expression taken in decimal arithmetic, and every repeated read returns that
\* same value; the value is the exact rational one wherever the two quotients are
\* finite decimals; 10,000,000 at rate 15 over 12 months gives bunga_per_bulan
\* 125,000 and total_bunga 1,500,000.
C19_InstallmentFormula ==
    LET rate == DecimalText(StrInt(tingkat_bunga(inp.jenis)))
        amount == DecimalTenths(inp.jumlah)
        term == DecimalText(StrInt(inp.lama_bulan))
        hundred == DecimalText(<<"1", "0", "0">>)
        twelve == DecimalText(<<"1", "2">>)
        formula == DecAdd(DecMul(DecDiv(DecDiv(rate, hundred), twelve), amount),
                          DecDiv(amount, term))
        lhs == MulSmall(formula.c, 12000 * inp.lama_bulan, 0)
        rhs == MulSmall(DigitsOf(inp.jumlah),
                        tingkat_bunga(inp.jenis) * inp.lama_bulan + 1200, 0)
    IN  /\ \A i \in 1..Len(out.reads) : out.reads[i] = formula
        /\ (DivExact(DecDiv(rate, hundred), twelve) /\ DivExact(amount, term))
              => IF formula.e < 0 THEN StripLeft(lhs) = StripLeft(rhs \o Zeros(0 - formula.e))
                 ELSE StripLeft(lhs \o Zeros(formula.e)) = StripLeft(rhs)
        /\ (inp.jumlah = 10000000 * Scale /\ inp.jenis = "KONSUMTIF" /\ inp.lama_bulan = 12)
              => /\ bunga_per_bulan(inp) = DecimalText(StrInt(125000))
                 /\ total_bunga(inp) = DecimalText(StrInt(1500000))

C19_Witness ==
    /\ inp.jumlah = 10000000 * Scale
    /\ inp.jenis = "KONSUMTIF"
    /\ inp.lama_bulan = 12
    /\ Len(out.reads) >= 2
    /\ out.value[1]._angsuran = <<out.reads[1]>>

\* ------------------------------------------------------------------ to_dict and back
nama_jenis(jenis) == IF jenis = "KONSUMTIF" THEN "Konsumtif" ELSE "Modal"

\* pinjaman.to_dict(): the dict without its entry 'angsuran', which nothing reads;
\* evaluating that entry reads pinjaman.angsuran and so fills the memo.  The float
\* float(self.jumlah) of a jumlah of at most 15 significant digits is the float that
\* str() prints as that jumlah with one decimal place (StrFloat): it is written here
\* as the number of tenths.
to_dict(p) ==
    [nomor_anggota |-> p.nomor, nama_anggota |-> p.nama, kode_pinjaman |-> kode(p.jenis),
     jenis_pinjaman |-> nama_jenis(p.jenis), tingkat_bunga |-> tingkat_bunga(p.jenis),
     jumlah_pinjaman |-> p.jumlah, lama_bulan |-> p.lama_bulan]

\* Pinjaman.dari_dict(pinjaman.to_dict()): out.value becomes the original object
\* after the call and the Pinjaman made from the dict
RoundTrip ==
    /\ out.status = "ok"
    /\ Len(out.value) = 1
    /\ LET data == to_dict(out.value[1])
           made == dari_dict(data.nomor_anggota, data.nama_anggota, data.kode_pinjaman,
                             data.jumlah_pinjaman, data.lama_bulan)
       IN  Outcome(IF made.status = "ok"
                   THEN [out EXCEPT !.value = <<AfterAngsuran(out.value[1]), made.value[1]>>]
                   ELSE made)

\* angsuran of the Pinjaman made from the dict is read
ReadAngsuranOfCopy ==
    /\ out.status = "ok"
    /\ Len(out.value) = 2
    /\ out.value[2]._angsuran = <<>>
    /\ Outcome([out EXCEPT !.value = <<out.value[1], AfterAngsuran(out.value[2])>>])

NextRoundTrip ==
    \/ Len(out.value) = 1 /\ ReadAngsuran
    \/ RoundTrip
    \/ ReadAngsuranOfCopy

SpecRoundTrip == InitAngsuran /\ [][NextRoundTrip]_vars

\* C20: for every valid Pinjaman, Pinjaman.dari_dict(pinjaman.to_dict()) is a Pinjaman
\* equal to the original: it compares equal, with the same nomor, nama, jenis, jumlah
\* and lama_bulan.
C20_RoundTripEqual ==
    Len(out.value) = 2 =>
        /\ out.status = "ok"
        /\ out.value[2] = out.value[1]
        /\ out.value[2].nomor = inp.nomor
        /\ out.value[2].nama = inp.nama
        /\ out.value[2].jenis = inp.jenis
        /\ out.value[2].jumlah = inp.jumlah
        /\ out.value[2].lama_bulan = inp.lama_bulan

\* ------------------------------------------------------------------ dari_dict of any record
\* repository instances just constructed, before any call
InstancesAtRest ==
    /\ lock = NoProc
    /\ pc = [p \in Procs |-> "idle"]
    /\ arg = [p \in Procs |-> AnyLoan]
    /\ file_exists = [p \in Procs |-> FALSE]
    /\ buf = [p \in Procs |-> <<>>]
    /\ exc = [p \in Procs |-> FALSE]
    /\ cache = [p \in Procs |-> NoCache]
    /\ ops = [p \in Procs |-> 0]
    /\ last = [p \in Procs |-> [op |-> "none", ok |-> TRUE]]
    /\ pre = [p \in Procs |-> [exists |-> FALSE, data |-> <<>>, cache |-> NoCache,
                               list |-> <<>>]]
    /\ ret = [p \in Procs |-> <<>>]
    /\ done = <<>>

\* a repository just constructed on a path with no file
StoreAtRest ==
    /\ fileExists = FALSE
    /\ fileData = <<>>
    /\ InstancesAtRest

R_IntLiteral == "invalid literal for int() with base 10"

\* an exception that is not a ValueError: KeyError (data[key] of a key that is absent),
\* decimal.InvalidOperation (Decimal(text) of a text that is no number)
RaisedKind(kind, reason) == [status |-> kind, value |-> <<>>, reason |-> reason,
                             reads |-> <<>>]

\* the keys dari_dict reads, in the order it reads them
DictKeys == <<"nomor_anggota", "nama_anggota", "kode_pinjaman", "jumlah_pinjaman",
              "lama_bulan">>

\* a dict holds, under each key, <<>> (the key is absent) or <<text>>, the str() of its value
Absent(data, key) == data[key] = <<>>

\* Pinjaman.dari_dict(data) of any dict: the arguments are evaluated left to right,
\* Anggota and dari_kode before the Decimal and the int, __post_init__ last
DariDictRecord(data) ==
    IF Absent(data, "nomor_anggota") THEN RaisedKind("KeyError", "nomor_anggota")
    ELSE IF Absent(data, "nama_anggota") THEN RaisedKind("KeyError", "nama_anggota")
    ELSE IF AnggotaRaises(data.nomor_anggota[1], data.nama_anggota[1]) # Lolos
         THEN Raised(AnggotaRaises(data.nomor_anggota[1], data.nama_anggota[1]))
    ELSE IF Absent(data, "kode_pinjaman") THEN RaisedKind("KeyError", "kode_pinjaman")
    ELSE IF dari_kode(data.kode_pinjaman[1]) = {} THEN Raised(R_KodeTidakValid)
    ELSE IF Absent(data, "jumlah_pinjaman")
         THEN RaisedKind("KeyError", "jumlah_pinjaman")
    ELSE IF DecimalOf(data.jumlah_pinjaman[1]) = {}
         THEN RaisedKind("InvalidOperation", "ConversionSyntax")
    ELSE IF Absent(data, "lama_bulan") THEN RaisedKind("KeyError", "lama_bulan")
    ELSE IF IntOf(data.lama_bulan[1]) = {} THEN Raised(R_IntLiteral)
    ELSE NewPinjaman(data.nomor_anggota[1], data.nama_anggota[1],
                     CHOOSE j \in dari_kode(data.kode_pinjaman[1]) : TRUE,
                     CHOOSE d \in DecimalOf(data.jumlah_pinjaman[1]) : TRUE,
                     CHOOSE n \in IntOf(data.lama_bulan[1]) : TRUE)

\* the dicts handed to dari_dict: each key absent, well formed, or not parsable
RecordInputs ==
    [nomor_anggota : {<<>>, <<<<"1", "0", "0", "1">>>>, <<<<>>>>},
     nama_anggota : {<<>>, <<<<"B">>>>},
     kode_pinjaman : {<<>>, <<<<"A">>>>, <<<<"C">>>>},
     jumlah_pinjaman : {<<>>, <<<<"1", "2">>>>, <<<<"2", ".", "5">>>>, <<<<"0">>>>,
                        <<<<"x">>>>},
     lama_bulan : {<<>>, <<<<"1", "2">>>>, <<<<"0">>>>, <<<<"x">>>>}]

InitFromRecord ==
    /\ inp \in RecordInputs
    /\ out = Pending
    /\ StoreAtRest

FromRecord ==
    /\ out = Pending
    /\ Outcome(DariDictRecord(inp))

NextFromRecord == FromRecord

SpecFromRecord == InitFromRecord /\ [][NextFromRecord]_vars

\* a key of the record is absent, or the principal or the term does not parse
AbsentOrUnparsable(data) ==
    \/ \E i \in 1..Len(DictKeys) : Absent(data, DictKeys[i])
    \/ DecimalOf(data.jumlah_pinjaman[1]) = {}
    \/ IntOf(data.lama_bulan[1]) = {}

\* C21: dari_dict of a record in which a required field (nomor_anggota, nama_anggota,
\* kode_pinjaman, jumlah_pinjaman, lama_bulan) is absent, or in which the principal or
\* the term cannot be parsed, fails, and fails with a ValueError and no other kind of
\* error.
C21_FromRecordValidationErrorOnly ==
    (out # Pending /\ AbsentOrUnparsable(inp)) => out.status = "ValueError"

\* ------------------------------------------------------------------ StatistikPinjaman
\* sum(values, Decimal('0')): the values added from the left, each sum rounded
RECURSIVE SumDecimal(_)
SumDecimal(vals) ==
    IF vals = <<>> THEN DecimalText(<<"0">>)
    ELSE DecAdd(SumDecimal(SubSeq(vals, 1, Len(vals) - 1)), vals[Len(vals)])

\* sum(1 for p in pinjaman_list if p.jenis == jenis)
RECURSIVE CountJenis(_, _)
CountJenis(list, jenis) ==
    IF list = <<>> THEN 0
    ELSE CountJenis(Tail(list), jenis) + (IF Head(list).jenis = jenis THEN 1 ELSE 0)

RECURSIVE Gcd(_, _)
Gcd(a, b) == IF b = 0 THEN a ELSE Gcd(b, a % b)

\* a / b of a Decimal by a Decimal: {} = the division raises (DivisionByZero, or
\* InvalidOperation for 0 / 0), otherwise the one quotient
DecDivOrRaise(a, b) == IF b.c = <<>> THEN {} ELSE {DecDiv(a, b)}

\* (k / n) * 100 of ints 0 <= k <= n, in floats: {} = ZeroDivisionError.  The float is
\* named by the fraction 100k/n in lowest terms, <<numerator, denominator>>: for
\* these small ints equal floats come from equal fractions and the other way round
PersenOrRaise(k, n) ==
    IF n = 0 THEN {}
    ELSE {<<(100 * k) \div Gcd(100 * k, n), n \div Gcd(100 * k, n)>>}

\* the float 0.0
FloatZero == <<0, 1>>

\* StatistikPinjaman(pinjaman_list): the list it is given and four empty memos
StatistikPinjaman(pinjaman_list) ==
    [pinjaman_list |-> pinjaman_list, _total_pinjaman |-> <<>>, _total_angsuran |-> <<>>,
     _jumlah_konsumtif |-> <<>>, _jumlah_modal |-> <<>>]

total_dataLive(s) == Len(AmbilSemuaResult(1))

total_data(s) == Len(s.pinjaman_list)

total_pinjaman(s) ==
    IF s._total_pinjaman = <<>>
    THEN SumDecimal([i \in 1..Len(s.pinjaman_list) |->
                        DecimalTenths(s.pinjaman_list[i].jumlah)])
    ELSE s._total_pinjaman[1]

total_angsuran(s) ==
    IF s._total_angsuran = <<>>
    THEN SumDecimal([i \in 1..Len(s.pinjaman_list) |-> angsuran(s.pinjaman_list[i])])
    ELSE s._total_angsuran[1]

rata_rata_pinjamanTanpaGuard(s) ==
    DecDivOrRaise(total_pinjaman(s), DecimalText(StrInt(total_data(s))))

rata_rata_pinjaman(s) ==
    IF total_data(s) = 0 THEN {DecimalText(<<"0">>)}
    ELSE DecDivOrRaise(total_pinjaman(s), DecimalText(StrInt(total_data(s))))

rata_rata_angsuran(s) ==
    IF total_data(s) = 0 THEN {DecimalText(<<"0">>)}
    ELSE DecDivOrRaise(total_angsuran(s), DecimalText(StrInt(total_data(s))))

jumlah_konsumtifSemua(s) ==
    IF s._jumlah_konsumtif = <<>> THEN Len(s.pinjaman_list)
    ELSE s._jumlah_konsumtif[1]

jumlah_konsumtif(s) ==
    IF s._jumlah_konsumtif = <<>> THEN CountJenis(s.pinjaman_list, "KONSUMTIF")
    ELSE s._jumlah_konsumtif[1]

jumlah_modal(s) ==
    IF s._jumlah_modal = <<>> THEN CountJenis(s.pinjaman_list, "MODAL")
    ELSE s._jumlah_modal[1]

persentase_konsumtif(s) ==
    IF total_data(s) = 0 THEN {FloatZero}
    ELSE PersenOrRaise(jumlah_konsumtif(s), total_data(s))

persentase_modal(s) ==
    IF total_data(s) = 0 THEN {FloatZero}
    ELSE PersenOrRaise(jumlah_modal(s), total_data(s))

total_bunga_semua(s) ==
    SumDecimal([i \in 1..Len(s.pinjaman_list) |-> total_bunga(s.pinjaman_list[i])])

total_bayar_keseluruhan(s) ==
    SumDecimal([i \in 1..Len(s.pinjaman_list) |-> total_bayar(s.pinjaman_list[i])])

\* the properties of a StatistikPinjaman
StatNames == {"total_data", "total_pinjaman", "total_angsuran", "rata_rata_pinjaman",
              "rata_rata_angsuran", "jumlah_konsumtif", "jumlah_modal",
              "persentase_konsumtif", "persentase_modal", "total_bunga",
              "total_bayar_keseluruhan"}

\* reading the property name of s: {value}, or {} when the read raises
ReadStat(s, name) ==
    CASE name = "total_data" -> {total_data(s)}
      [] name = "total_pinjaman" -> {total_pinjaman(s)}
      [] name = "total_angsuran" -> {total_angsuran(s)}
      [] name = "rata_rata_pinjaman" -> rata_rata_pinjaman(s)
      [] name = "rata_rata_angsuran" -> rata_rata_angsuran(s)
      [] name = "jumlah_konsumtif" -> {jumlah_konsumtif(s)}
      [] name = "jumlah_modal" -> {jumlah_modal(s)}
      [] name = "persentase_konsumtif" -> persentase_konsumtif(s)
      [] name = "persentase_modal" -> persentase_modal(s)
      [] name = "total_bunga" -> {total_bunga_semua(s)}
      [] name = "total_bayar_keseluruhan" -> {total_bayar_keseluruhan(s)}

\* the memos a read fills: a total or a count is stored at its first read, also when
\* an average or a percentage of a non-empty list reads it; total_angsuran reads
\* p.angsuran of every Pinjaman of the list, which stores it in that Pinjaman
WithTotalPinjaman(s) == [s EXCEPT !._total_pinjaman = <<total_pinjaman(s)>>]

WithTotalAngsuran(s) ==
    IF s._total_angsuran # <<>> THEN s
    ELSE [s EXCEPT !._total_angsuran = <<total_angsuran(s)>>,
                   !.pinjaman_list = [i \in 1..Len(s.pinjaman_list) |->
                                         AfterAngsuran(s.pinjaman_list[i])]]

WithJumlahKonsumtif(s) == [s EXCEPT !._jumlah_konsumtif = <<jumlah_konsumtif(s)>>]

WithJumlahModal(s) == [s EXCEPT !._jumlah_modal = <<jumlah_modal(s)>>]

\* the object after the property name has been read
AfterReadStat(s, name) ==
    CASE name = "total_pinjaman" -> WithTotalPinjaman(s)
      [] name = "total_angsuran" -> WithTotalAngsuran(s)
      [] name = "rata_rata_pinjaman" ->
            IF total_data(s) = 0 THEN s ELSE WithTotalPinjaman(s)
      [] name = "rata_rata_angsuran" ->
            IF total_data(s) = 0 THEN s ELSE WithTotalAngsuran(s)
      [] name = "jumlah_konsumtif" -> WithJumlahKonsumtif(s)
      [] name = "jumlah_modal" -> WithJumlahModal(s)
      [] name = "persentase_konsumtif" ->
            IF total_data(s) = 0 THEN s ELSE WithJumlahKonsumtif(s)
      [] name = "persentase_modal" ->
            IF total_data(s) = 0 THEN s ELSE WithJumlahModal(s)
      [] OTHER -> s

\* ------------------------------------------------------------------ reading a snapshot
MaxLoans == 2        \* Pinjaman in the list a StatistikPinjaman is made of

StatLoans == {Pinjaman(<<"1", "0", "0", "1">>, <<"B">>, "KONSUMTIF", 10000000 * Scale, 12),
              Pinjaman(<<"1", "0", "0", "2">>, <<"B">>, "MODAL", 5000000 * Scale, 24)}

StatLists == UNION {[1..n -> StatLoans] : n \in 0..MaxLoans}

\* a StatistikPinjaman just constructed on the list inp: out.value is the object,
\* out.reads the reads made of it so far
InitStatistik ==
    /\ inp \in StatLists
    /\ out = Ok(StatistikPinjaman(inp))
    /\ StoreAtRest

ReadStatistik(name) ==
    /\ out.status = "ok"
    /\ Len(out.reads) < MaxReads
    /\ Outcome([out EXCEPT !.value = <<AfterReadStat(out.value[1], name)>>,
                           !.reads = Append(@, [name |-> name,
                                                result |-> ReadStat(out.value[1], name)])])

NextStatistik == \E name \in StatNames : ReadStatistik(name)

SpecStatistik == InitStatistik /\ [][NextStatistik]_vars

\* every read made so far, and a read of any property now, gives what Expected says
ReadsAre(Expected(_)) ==
    /\ \A i \in 1..Len(out.reads) : out.reads[i].result = Expected(out.reads[i].name)
    /\ \A name \in StatNames : ReadStat(out.value[1], name) = Expected(name)

\* C22: a StatistikPinjaman over an empty list reports total_data 0, the sums
\* total_pinjaman, total_angsuran, total_bunga and total_bayar_keseluruhan 0, both
\* averages 0, both counts 0 and both percentages 0.0, and no read of a property
\* raises (no division by zero), whatever was read before.
C22_EmptyAllZero ==
    LET Expected(name) ==
            IF name \in {"total_data", "jumlah_konsumtif", "jumlah_modal"} THEN {0}
            ELSE IF name \in {"persentase_konsumtif", "persentase_modal"}
                 THEN {FloatZero}
            ELSE {DecimalText(<<"0">>)}
    IN  inp = <<>> => ReadsAre(Expected)

C22_Witness ==
    /\ inp = <<>>
    /\ Len(out.reads) = 2
    /\ out.reads[1].name = "rata_rata_pinjaman"
    /\ out.reads[2].name = "persentase_modal"
    /\ out.reads[1].result = {DecimalText(<<"0">>)}

\* the principals of a list added up, in tenths
RECURSIVE SumTenths(_)
SumTenths(list) == IF list = <<>> THEN 0 ELSE Head(list).jumlah + SumTenths(Tail(list))

\* C23: for every list of Pinjaman, total_data is the number of loans, total_pinjaman
\* the sum of their principals, jumlah_konsumtif and jumlah_modal the numbers of
\* KONSUMTIF and MODAL loans, and jumlah_konsumtif + jumlah_modal = total_data; two
\* loans of 10,000,000 (KONSUMTIF) and 5,000,000 (MODAL) give 2, 15,000,000, 1 and 1.
C23_CountsAndSums ==
    LET s == out.value[1]
        Of(jenis) == Cardinality({i \in 1..Len(inp) : inp[i].jenis = jenis})
        Expected(name) ==
            CASE name = "total_data" -> {Len(inp)}
              [] name = "total_pinjaman" -> {DecimalTenths(SumTenths(inp))}
              [] name = "jumlah_konsumtif" -> {Of("KONSUMTIF")}
              [] name = "jumlah_modal" -> {Of("MODAL")}
        Counted == {"total_data", "total_pinjaman", "jumlah_konsumtif", "jumlah_modal"}
    IN  /\ \A i \in 1..Len(out.reads) :
              out.reads[i].name \in Counted
                  => out.reads[i].result = Expected(out.reads[i].name)
        /\ \A name \in Counted : ReadStat(s, name) = Expected(name)
        /\ jumlah_konsumtif(s) + jumlah_modal(s) = total_data(s)
        /\ (/\ Len(inp) = 2
            /\ inp[1].jenis = "KONSUMTIF" /\ inp[1].jumlah = 10000000 * Scale
            /\ inp[2].jenis = "MODAL" /\ inp[2].jumlah = 5000000 * Scale)
              => /\ total_data(s) = 2
                 /\ total_pinjaman(s) = DecimalText(StrInt(15000000))
                 /\ jumlah_konsumtif(s) = 1
                 /\ jumlah_modal(s) = 1

C23_Witness ==
    /\ Len(inp) = 2
    /\ inp[1].jenis = "KONSUMTIF" /\ inp[1].jumlah = 10000000 * Scale
    /\ inp[2].jenis = "MODAL" /\ inp[2].jumlah = 5000000 * Scale
    /\ Len(out.reads) = 2
    /\ out.reads[1] = [name |-> "total_pinjaman", result |-> {DecimalText(StrInt(15000000))}]
    /\ out.reads[2] = [name |-> "jumlah_konsumtif", result |-> {1}]
    /\ out.value[1]._total_pinjaman # <<>>

\* ------------------------------------------------------------------ statistics of the store
\* the loan saved before and while a snapshot is held
SnapLoans == {Pinjaman(<<"1", "0", "0", "2">>, <<"B">>, "MODAL", 5000000 * Scale, 24)}

\* service.hitung_statistik(): StatistikPinjaman(self.ambil_semua_pinjaman()).  inp
\* keeps the list the constructor was given, out.value is the object.  The list is
\* the one ambil_semua returns, which is the repository's _cache when it caches.
HitungStatistik(p) ==
    /\ pc[p] = "idle"
    /\ ops[p] < MaxOps
    /\ out = Pending
    /\ ~AmbilSemuaRaises(p)
    /\ ops' = [ops EXCEPT ![p] = @ + 1]
    /\ ret' = [ret EXCEPT ![p] = AmbilSemuaResult(p)]
    /\ cache' = [cache EXCEPT ![p] = AmbilSemuaCache(p)]
    /\ last' = [last EXCEPT ![p] = [op |-> "hitung_statistik", ok |-> TRUE]]
    /\ inp' = AmbilSemuaResult(p)
    /\ out' = Ok(StatistikPinjaman(AmbilSemuaResult(p)))
    /\ UNCHANGED <<fileExists, fileData, lock, pc, arg, file_exists, buf, exc, pre, done>>

\* the properties read from the held snapshot, each at most once: the count, a sum,
\* an average and a count per kind (every state is checked for what a read of any
\* of the eleven properties would return in it)
SnapshotReads == {"total_data", "total_pinjaman", "rata_rata_angsuran", "jumlah_modal"}

ReadSnapshot(name) ==
    /\ \A i \in 1..Len(out.reads) : out.reads[i].name # name
    /\ ReadStatistik(name)

\* simpan, ambil_semua and hapus_semua rebind self._cache and never change a list in
\* place, so they leave the list held by the snapshot as it is (out is unchanged)
NextSnapshot ==
    \/ HitungStatistik(1)
    \/ \E name \in SnapshotReads : ReadSnapshot(name)
    \/ \E pinjaman \in SnapLoans : SimpanCall(1, pinjaman)
    \/ SimpanStep(1)
    \/ AmbilSemua(1)
    \/ HapusSemua(1)

SpecSnapshot == Init /\ [][NextSnapshot]_vars

\* C24: a StatistikPinjaman obtained from hitung_statistik does not observe later
\* changes of the store: after any later simpan or hapus_semua, with or without
\* ambil_semua calls in between, every value read from it (count, sums, averages,
\* counts per kind, percentages) is the value the list had when the snapshot was
\* taken, whether or not the value was read before the change; and the list a
\* repository holds in its cache is never changed while it is held.
C24_SnapshotIgnoresStore ==
    /\ [](out.status = "ok" =>
            LET Expected(name) == ReadStat(StatistikPinjaman(inp), name)
            IN  ReadsAre(Expected))
    /\ [][(cache[1].valid /\ cache'[1].valid) => cache'[1].list = cache[1].list]_vars

\* a snapshot of one stored loan; the store was cleared afterwards, and the total is
\* then read from the snapshot for the first time
C24_Witness ==
    /\ out.status = "ok"
    /\ Len(inp) = 1
    /\ last[1].op = "hapus_semua"
    /\ fileData = <<>>
    /\ ~cache[1].valid
    /\ Len(out.reads) = 1
    /\ out.reads[1] = [name |-> "total_pinjaman", result |-> {DecimalText(StrInt(5000000))}]

\* ------------------------------------------------------------------ two instances, one file
\* two processes, each with its own repository instance on the same file: each
\* saves its own loans, reads, and clears; MaxAppends calls for each
NextShared ==
    \E p \in Procs :
        \/ \E pinjaman \in ConcLoans(p) : ops[p] < MaxAppends /\ SimpanCall(p, pinjaman)
        \/ SimpanStep(p)
        \/ ops[p] < MaxAppends /\ AmbilSemua(p)
        \/ ops[p] < MaxAppends /\ HapusSemua(p)

SpecShared == Init /\ [][NextShared]_vars

\* the step is one of p's own simpan writing its row, or p's own hapus_semua
OwnWrite(p) ==
    \/ pc[p] = "row" /\ pc'[p] = "unlock"
    \/ pc[p] = "idle" /\ pc'[p] = "idle" /\ ops'[p] = ops[p] + 1
       /\ last'[p].op = "hapus_semua"

\* no step of the other process changes the cache of an instance, and ambil_semua
\* of an instance with a cache returns the cached list
C25_OthersNeverInvalidate ==
    [][\A p \in Procs :
          /\ (cache'[p] # cache[p] /\ cache[p].valid) => OwnWrite(p)
          /\ (cache[p].valid /\ pc'[p] = "idle" /\ ops'[p] = ops[p] + 1
              /\ last'[p].op = "ambil_semua")
                => ret'[p] = cache[p].list]_vars

\* process 1 has just read its cached list, which lacks a loan that process 2 has
\* saved and that is in the file
C25_StaleRead ==
    /\ Returned(1, "ambil_semua", TRUE)
    /\ cache[1].valid
    /\ ret[1] = cache[1].list
    /\ Idle(2)
    /\ \E i \in 1..Len(done) :
          /\ done[i] \in ConcLoans(2)
          /\ \A j \in 1..Len(ret[1]) : ret[1][j] # done[i]
          /\ \E j \in 1..Len(ParseNow) : ParseNow[j] = done[i]

\* C25: with two repository instances on one file, an instance whose cache was
\* populated by an ambil_semua keeps returning that cached list after the other
\* instance appends or clears, until it performs a successful simpan or hapus_semua
\* itself: its cache changes in no step of the other instance, and a simpan of its
\* own that raises IOError leaves the cache as it was at the call.
C25_StaleUntilOwnSuccessfulWrite ==
    /\ C25_OthersNeverInvalidate
    /\ [](\A p \in Procs :
            (Returned(p, "simpan", FALSE) /\ pre[p].cache.valid)
                => cache[p] = pre[p].cache)

\* ------------------------------------------------------------------ the controller
\* PinjamanController.jalankan() over the service and the repository of process 1.
\* inp is the controller between two console inputs: at, the input() it waits at;
\* pilihan, the menu choice it is handling; and the values entered so far.  out is
\* the run: status running, returned or raised; reason, what ended the loop; reads,
\* the last message shown; value, the Pinjaman made from the entries.
\* Every input() of the view (prompt, confirm, pause) returns a line or raises
\* KeyboardInterrupt (Ctrl-C) or EOFError (end of input, Ctrl-D); printing does
\* not fail.
StoreVars == <<fileExists, fileData, lock, pc, arg, file_exists, buf, exc, cache, ops,
               last, pre, ret, done>>

InputRaises == {"KeyboardInterrupt", "EOFError"}

M_Invalid == "Pilihan tidak valid! Silakan pilih 1-3."
M_Unexpected == "Error tidak terduga"
M_Laporan == "Error saat menampilkan laporan"
M_BelumAda == "Belum ada data untuk ditampilkan."
M_Statistik == "tampilkan_statistik"      \* the table and the statistics are shown
M_Sukses == "Data berhasil disimpan!"
M_Gagal == "Gagal menyimpan data!"
M_Batal == "Data dibatalkan"
M_Angka == "Masukkan angka yang valid!"
M_KodeAB == "Kode pinjaman harus A atau B"

\* the entry form before anything was entered
Form(at, pilihan) ==
    [at |-> at, pilihan |-> pilihan, nomor_anggota |-> <<>>, nama_anggota |-> <<>>,
     kode_jenis |-> <<>>, jumlah |-> 0, lama_bulan |-> 0]

\* the lines typed at the prompts
MenuTexts == {<<"1">>, <<"2">>, <<"3">>, <<"9">>}
NomorTexts == {<<>>, <<"1", "0", "0", "1">>, <<"1", "2", "3">>}
NamaTexts == {<<SPACE>>, <<"B">>}
KodeTexts == {<<"a">>, <<"C">>}
JumlahTexts == {<<"x">>, StrInt(JumlahMinimum), StrInt(50000)}
LamaTexts == {<<"x">>, <<"1", "2">>}
ConfirmTexts == {<<"Y">>, <<"T">>}

\* float(text) of the texts typed, in tenths; {} = ValueError
float_of(t) == DecimalOf(t)

\* view.confirm: input().upper() == 'Y'
confirm(t) == Upper(t) = <<"Y">>

Show(at, message) ==
    /\ inp' = [inp EXCEPT !.at = at]
    /\ out' = [out EXCEPT !.reads = <<message>>]

Move(at) ==
    /\ inp' = [inp EXCEPT !.at = at]
    /\ out' = out

\* back in jalankan's loop: the menu is shown and the choice prompted for
ToMenu ==
    /\ inp' = [inp EXCEPT !.at = "menu", !.pilihan = <<>>]
    /\ out' = out

\* jalankan is left: by break (returned) or by an exception no clause caught (raised)
End(status, reason) ==
    /\ inp' = [inp EXCEPT !.at = "ended"]
    /\ out' = [out EXCEPT !.status = status, !.reason = reason]

\* an exception reaches the try of jalankan: KeyboardInterrupt exits, any Exception
\* is reported and followed by view.pause()
ExceptJalankan(kind) ==
    IF kind = "KeyboardInterrupt" THEN End("returned", kind)
    ELSE Show("unexpected_pause", M_Unexpected)

\* an exception reaches the try of _handle_entry_data: ValueError is reported and
\* followed by view.pause(); KeyboardInterrupt breaks the loop, on to the pause
\* that ends the entry; anything else goes on to jalankan
ExceptEntry(kind, message) ==
    IF kind = "ValueError" THEN Show("entry_error_pause", message)
    ELSE IF kind = "KeyboardInterrupt" THEN Move("entry_end_pause")
    ELSE ExceptJalankan(kind)

\* pilihan = self.view.prompt("Pilih menu [1-3]"), choices 1, 3 and others
MenuPrompt ==
    /\ inp.at = "menu"
    /\ \/ \E pilihan \in MenuTexts \ {<<"2">>} :
             IF pilihan = <<"1">>
             THEN inp' = Form("nomor", pilihan) /\ out' = [out EXCEPT !.value = <<>>]
             ELSE IF pilihan = <<"3">> THEN End("returned", "exit")
             ELSE /\ inp' = [inp EXCEPT !.at = "invalid_pause", !.pilihan = pilihan]
                  /\ out' = [out EXCEPT !.reads = <<M_Invalid>>]
       \/ \E kind \in InputRaises : ExceptJalankan(kind)
    /\ UNCHANGED StoreVars

\* choice 2, _handle_laporan: ambil_semua_pinjaman() and, for a list that is not
\* empty, hitung_statistik(); an exception is reported; then view.pause()
MenuLaporan ==
    /\ inp.at = "menu"
    /\ pc[1] = "idle"
    /\ inp' = [inp EXCEPT !.at = "laporan_pause", !.pilihan = <<"2">>]
    /\ IF AmbilSemuaRaises(1)
       THEN /\ out' = [out EXCEPT !.reads = <<M_Laporan>>]
            /\ last' = [last EXCEPT ![1] = [op |-> "ambil_semua", ok |-> FALSE]]
            /\ UNCHANGED <<cache, ret>>
       ELSE /\ out' = [out EXCEPT !.reads = IF AmbilSemuaResult(1) = <<>>
                                            THEN <<M_BelumAda>> ELSE <<M_Statistik>>]
            /\ last' = [last EXCEPT ![1] = [op |-> "ambil_semua", ok |-> TRUE]]
            /\ cache' = [cache EXCEPT ![1] = AmbilSemuaCache(1)]
            /\ ret' = [ret EXCEPT ![1] = AmbilSemuaResult(1)]
    /\ UNCHANGED <<fileExists, fileData, lock, pc, arg, file_exists, buf, exc, ops, pre, done>>

\* view.pause() inside the try of jalankan: after an invalid choice (line 56), at
\* the end of the report (line 209) and at the end of the entry (line 118)
PauseInTry ==
    /\ inp.at \in {"invalid_pause", "laporan_pause", "entry_end_pause"}
    /\ \/ ToMenu
       \/ \E kind \in InputRaises : ExceptJalankan(kind)
    /\ UNCHANGED StoreVars

\* view.pause() in the except ValueError clause of the entry (line 112): the clause
\* is outside its own try, so what it raises goes on to jalankan
EntryErrorPause ==
    /\ inp.at = "entry_error_pause"
    /\ \/ inp' = Form("nomor", inp.pilihan) /\ out' = [out EXCEPT !.value = <<>>]
       \/ \E kind \in InputRaises : ExceptJalankan(kind)
    /\ UNCHANGED StoreVars

\* view.pause() in the except Exception clause of jalankan (line 65): what it
\* raises is caught by nothing and ends jalankan
UnexpectedPause ==
    /\ inp.at = "unexpected_pause"
    /\ \/ ToMenu
       \/ \E kind \in InputRaises : End("raised", kind)
    /\ UNCHANGED StoreVars

\* _input_data_pinjaman: the prompts for nomor, nama and kode
EntryNomor ==
    /\ inp.at = "nomor"
    /\ \/ \E t \in NomorTexts :
             IF Strip(t) = <<>> THEN ExceptEntry("ValueError", R_NomorKosong)
             ELSE inp' = [inp EXCEPT !.at = "nama", !.nomor_anggota = Strip(t)] /\ out' = out
       \/ \E kind \in InputRaises : ExceptEntry(kind, "")
    /\ UNCHANGED StoreVars

EntryNama ==
    /\ inp.at = "nama"
    /\ \/ \E t \in NamaTexts :
             IF Strip(t) = <<>> THEN ExceptEntry("ValueError", R_NamaKosong)
             ELSE inp' = [inp EXCEPT !.at = "kode", !.nama_anggota = Strip(t)] /\ out' = out
       \/ \E kind \in InputRaises : ExceptEntry(kind, "")
    /\ UNCHANGED StoreVars

EntryKode ==
    /\ inp.at = "kode"
    /\ \/ \E t \in KodeTexts :
             IF Upper(Strip(t)) \notin {<<"A">>, <<"B">>}
             THEN ExceptEntry("ValueError", M_KodeAB)
             ELSE inp' = [inp EXCEPT !.at = "jumlah", !.kode_jenis = Upper(Strip(t))]
                  /\ out' = out
       \/ \E kind \in InputRaises : ExceptEntry(kind, "")
    /\ UNCHANGED StoreVars

\* the prompt for jumlah, repeated until float() takes the text
EntryJumlah ==
    /\ inp.at = "jumlah"
    /\ \/ \E t \in JumlahTexts :
             IF float_of(Strip(t)) = {} THEN Show("jumlah", M_Angka)
             ELSE /\ inp' = [inp EXCEPT !.at = "lama",
                                        !.jumlah = CHOOSE x \in float_of(Strip(t)) : TRUE]
                  /\ out' = out
       \/ \E kind \in InputRaises : ExceptEntry(kind, "")
    /\ UNCHANGED StoreVars

\* the prompt for lama, repeated until int() takes the text; then buat_pinjaman,
\* whose ValueError goes to the entry's except clause
EntryLama ==
    /\ inp.at = "lama"
    /\ \/ \E t \in LamaTexts :
             IF IntOf(Strip(t)) = {} THEN Show("lama", M_Angka)
             ELSE LET lama == CHOOSE n \in IntOf(Strip(t)) : TRUE
                      made == buat_pinjaman(inp.nomor_anggota, inp.nama_anggota,
                                            inp.kode_jenis, inp.jumlah, lama)
                  IN  IF made.status = "ok"
                      THEN /\ inp' = [inp EXCEPT !.at = "confirm_simpan", !.lama_bulan = lama]
                           /\ out' = [out EXCEPT !.value = made.value]
                      ELSE ExceptEntry("ValueError", made.reason)
       \/ \E kind \in InputRaises : ExceptEntry(kind, "")
    /\ UNCHANGED StoreVars

\* view.confirm("Simpan data ini?") answered with something else than Y, or raising
ConfirmSimpan ==
    /\ inp.at = "confirm_simpan"
    /\ \/ \E t \in ConfirmTexts : ~confirm(t) /\ Show("confirm_lanjut", M_Batal)
       \/ \E kind \in InputRaises : ExceptEntry(kind, "")
    /\ UNCHANGED StoreVars

\* answered with Y: service.simpan_pinjaman(pinjaman) calls repository.simpan
ConfirmSimpanYa ==
    /\ inp.at = "confirm_simpan"
    /\ \E t \in ConfirmTexts : confirm(t)
    /\ pc[1] = "idle"
    /\ ops[1] < MaxOps
    /\ ops' = [ops EXCEPT ![1] = @ + 1]
    /\ pc' = [pc EXCEPT ![1] = "check"]
    /\ arg' = [arg EXCEPT ![1] = out.value[1]]
    /\ exc' = [exc EXCEPT ![1] = FALSE]
    /\ pre' = [pre EXCEPT ![1] = Snapshot(1)]
    /\ inp' = [inp EXCEPT !.at = "simpan"]
    /\ UNCHANGED <<out, fileExists, fileData, lock, file_exists, buf, cache, last, ret, done>>

\* simpan is over: it returned True and the success is shown, or it raised IOError,
\* which passes the entry's except clauses and reaches jalankan
SimpanSelesai ==
    /\ inp.at = "simpan"
    /\ pc[1] = "idle"
    /\ IF last[1].ok THEN Show("confirm_lanjut", M_Sukses)
       ELSE ExceptEntry("IOError", "")
    /\ UNCHANGED StoreVars

\* lanjut = view.confirm("Masih ada data yang akan diinputkan?")
ConfirmLanjut ==
    /\ inp.at = "confirm_lanjut"
    /\ \/ \E t \in ConfirmTexts :
             IF confirm(t)
             THEN inp' = Form("nomor", inp.pilihan) /\ out' = [out EXCEPT !.value = <<>>]
             ELSE Move("entry_end_pause")
       \/ \E kind \in InputRaises : ExceptEntry(kind, "")
    /\ UNCHANGED StoreVars

\* main_oop.py: the controller starts on the file pinjaman.csv, which is missing or
\* is there and does not decode
InitController ==
    /\ inp = Form("menu", <<>>)
    /\ out = [status |-> "running", value |-> <<>>, reason |-> "", reads |-> <<>>]
    /\ fileExists \in BOOLEAN
    /\ fileData = IF fileExists THEN <<BADBYTE, NL>> ELSE <<>>
    /\ InstancesAtRest

NextController ==
    \/ MenuPrompt
    \/ MenuLaporan
    \/ PauseInTry
    \/ EntryErrorPause
    \/ UnexpectedPause
    \/ EntryNomor
    \/ EntryNama
    \/ EntryKode
    \/ EntryJumlah
    \/ EntryLama
    \/ ConfirmSimpan
    \/ ConfirmSimpanYa
    \/ inp.at = "simpan" /\ SimpanStep(1)
    \/ SimpanSelesai
    \/ ConfirmLanjut

SpecController == InitController /\ [][NextController]_vars

\* C26: the main loop never ends because of a failure: a ValueError, an IOError or
\* any other exception raised while menu choice 1 (entry) or 2 (report) is handled
\* is caught and reported and the loop goes on to the menu; jalankan is left only
\* when the user chooses 3 or interrupts with the keyboard.
C26_LoopEndsOnlyByExitOrInterrupt ==
    inp.at = "ended" => out.reason \in {"exit", "KeyboardInterrupt"}

\* C27: repository.simpan returns True when the record was stored and returns False
\* when storing failed, so that a failed save takes the controller to its branch
\* 'Gagal menyimpan data!': whenever a simpan called from the entry is over, the
\* controller shows the success message after a save that stored the record and
\* the failure message after a save that failed, and goes on to ask for more data.
C27_FailedSaveShowsGagal ==
    [][(inp.at = "simpan" /\ pc[1] = "idle" /\ inp'.at # "simpan")
          => /\ inp'.at = "confirm_lanjut"
             /\ out'.reads = IF last[1].ok THEN <<M_Sukses>> ELSE <<M_Gagal>>]_vars

\* ------------------------------------------------------------------ the latest loans
\* s[start:] of a list, as Python slices: a negative start counts from the end, and
\* a start beyond either end is clipped
SliceFrom(s, start) ==
    LET from == IF start < 0
                THEN (IF Len(s) + start < 0 THEN 0 ELSE Len(s) + start)
                ELSE (IF start > Len(s) THEN Len(s) ELSE start)
    IN  SubSeq(s, from + 1, Len(s))

\* semua_pinjaman[-jumlah:] if len(semua_pinjaman) >= jumlah else semua_pinjaman
ambil_pinjaman_terbaru(semua_pinjaman, jumlah) ==
    IF Len(semua_pinjaman) >= jumlah THEN SliceFrom(semua_pinjaman, 0 - jumlah)
    ELSE semua_pinjaman

\* service.ambil_pinjaman_terbaru(jumlah) by process p: inp is the argument, out.reads
\* what ambil_semua returned to it, out.value the list it returns
AmbilPinjamanTerbaru(p, jumlah) ==
    /\ pc[p] = "idle"
    /\ ~AmbilSemuaRaises(p)
    /\ inp' = <<jumlah>>
    /\ out' = [status |-> "ok", reason |-> Lolos, reads |-> AmbilSemuaResult(p),
               value |-> ambil_pinjaman_terbaru(AmbilSemuaResult(p), jumlah)]
    /\ ret' = [ret EXCEPT ![p] = AmbilSemuaResult(p)]
    /\ cache' = [cache EXCEPT ![p] = AmbilSemuaCache(p)]
    /\ last' = [last EXCEPT ![p] = [op |-> "ambil_pinjaman_terbaru", ok |-> TRUE]]
    /\ UNCHANGED <<fileExists, fileData, lock, pc, arg, file_exists, buf, exc, ops, pre, done>>

\* loans are saved, and the latest jumlah of them asked for, jumlah from 0 to more
\* than can be stored
TerbaruLoans == ConcLoans(1) \cup ConcLoans(2)

NextTerbaru ==
    \/ \E pinjaman \in TerbaruLoans : SimpanCall(1, pinjaman)
    \/ SimpanStep(1)
    \/ \E jumlah \in 0..(MaxOps + 1) : AmbilPinjamanTerbaru(1, jumlah)

SpecTerbaru == Init /\ [][NextTerbaru]_vars

\* C28: ambil_pinjaman_terbaru(n) returns the n most recently stored loans: for every
\* n >= 0 and every store of k loans the result is the last min(n, k) elements of
\* what ambil_semua returns, in stored order; n = 0 gives the empty list.
C28_LatestAreLastMin ==
    out.status = "ok" =>
        LET n == inp[1]
            k == Len(out.reads)
            m == IF n < k THEN n ELSE k
        IN  out.value = SubSeq(out.reads, k - m + 1, k)

====
